---- MODULE Spec2Model ----
(***************************************************************************)
(* ISKCON-Broadcast: the schedule walker, the action dispatcher, the       *)
(* camera move queue (src/src/video_stream.py), the camera login           *)
(* (src/camera.py), the camera registry (src/src/camera_registry.py) and   *)
(* the camera handles (src/src/cameras), as state machines.                *)
(*                                                                         *)
(* Time is counted in ticks.  One tick is one period of the display loop   *)
(* (the asyncio.sleep at the end of each display iteration); durations     *)
(* and event windows are given in ticks.  A coroutine runs from one await  *)
(* to the next in one step; time advances only when no step is possible.   *)
(* The operator keyboard (cv2.waitKey) is not modelled: no key is pressed. *)
(***************************************************************************)
EXTENDS Integers, Sequences, FiniteSets, TLC

VARIABLES
    schedule,           \* the loaded orchestration: a sequence of programmes
    cameras,            \* the roster: a sequence of camera handles
    debug_time,         \* <<>> (None) or <<t>>: the forced --debug-time
    clock,              \* wall clock, in ticks
    wpc,                \* main(): "loop", "scan", "dispatching", "exited", "crashed"
    time_now,           \* main(): the time sampled at the top of the pass
    passes,             \* number of passes begun
    cursor,             \* main(): position in the scan order of the pass
    dispatch_log,       \* history: names of the events dispatched in this pass
    dpc,                \* action_dispatcher(): "Idle", "ConcurrentMedia",
                        \* "SequentialModes", "Done", "Raised"
    audio_task,         \* action_dispatcher(): the referenced audio task
    video_task,         \* action_dispatcher(): the referenced video task
    video_mode_tasks,   \* action_dispatcher(): the video_mode actions
    mode_idx,           \* action_dispatcher(): index of the current mode
    orphans,            \* media tasks no variable refers to any more
    camera_move_queue,  \* the module-level deque of camera_move actions
    display_task,       \* the display_video_mode coroutine of the current mode
    drain_tasks,        \* the process_camera_move_queue coroutines alive
    ptz_log,            \* history: send_ptz_command calls made by the drain
    enq_log,            \* history: every camera_move ever appended to the queue
    t_dispatch,         \* history: clock when the current dispatch began
    t_media,            \* history: clock when the media phase was left
    mode_log,           \* history: one record per finished mode of this dispatch
    retries,            \* get_token(): parameter
    delay,              \* get_token(): parameter
    json_error_escapes, \* whether response.json() of the installed requests raises
                        \* a plain ValueError (before 2.27) and not a
                        \* RequestException for a body that is not JSON
    endpoint,           \* the answers the login endpoint gives, attempt by attempt
    attempt,            \* get_token(): loop variable
    auth_pc,            \* get_token(): "post", "sleep", "returned", "raised"
    auth_clock,         \* seconds elapsed inside get_token()
    auth_log,           \* history: one record per login attempt
    auth_result,        \* what get_token() returned
    registry,           \* CameraRegistry._cameras: kind -> class
    rpc,                \* create_cameras_from_config(): "ready", "building",
                        \* "returned", "raised"
    cameras_config,     \* create_cameras_from_config(): its argument
    build_i,            \* create_cameras_from_config(): enumerate index (from 0)
    built,              \* create_cameras_from_config(): the list cameras
    build_error,        \* the exception that left create_cameras_from_config
    last_call,          \* history: the last call of the registry and its outcome
    workers,            \* plugin discovery: per thread, where it is in
                        \* register() and create_camera(), and what it got
    handle,             \* one camera handle (MockCamera or IPCamera)
    threads,            \* the capture threads started on the handle
    calls,              \* per caller thread: the call in progress and its position
    concurrent,         \* whether a second thread calls the handle as well
    ptz_result,         \* history: the last send_ptz_command and its outcome
    heap,               \* the frame arrays allocated so far, by identity
    slot,               \* self.frame: None or a reference to an array
    held,               \* per reader: whether it called get_frame(), and what
                        \* it was given
    lpc                 \* the capture loop: its source, position and local frame

dvars == <<schedule, cameras, debug_time, clock, wpc, time_now, passes, cursor,
           dispatch_log, dpc, audio_task, video_task, video_mode_tasks, mode_idx,
           orphans, camera_move_queue, display_task, drain_tasks, ptz_log,
           enq_log, t_dispatch, t_media, mode_log>>

avars == <<retries, delay, json_error_escapes, endpoint, attempt, auth_pc, auth_clock,
           auth_log, auth_result>>

rvars == <<registry, rpc, cameras_config, build_i, built, build_error, last_call,
           workers>>

hvars == <<handle, threads, calls, concurrent, ptz_result>>

fvars == <<heap, slot, held, lpc>>

vars == <<dvars, avars, rvars, hvars, fvars>>

(***************************************************************************)
(* Bounds of the model.                                                    *)
(***************************************************************************)
MaxClock == 12
MaxPasses == 2
MaxDebugTime == 3
MaxRetries == 3
MaxDelay == 2

Max(a, b) == IF a >= b THEN a ELSE b
Min(a, b) == IF a <= b THEN a ELSE b

RECURSIVE SumDurations(_)
SumDurations(s) == IF s = <<>> THEN 0 ELSE Head(s).duration + SumDurations(Tail(s))

(***************************************************************************)
(* The schedule description: programmes -> events -> actions.              *)
(***************************************************************************)
NoAction ==
    [action |-> "none", file |-> "", mode |-> "", type |-> "", camera |-> 0,
     marker |-> 0, duration |-> 0]

PlayAudio(file, duration) ==
    [NoAction EXCEPT !.action = "play_audio", !.file = file, !.duration = duration]

PlayVideo(file, duration) ==
    [NoAction EXCEPT !.action = "play_video", !.file = file, !.duration = duration]

VideoMode(mode, duration) ==
    [NoAction EXCEPT !.action = "video_mode", !.mode = mode, !.duration = duration]

CameraMove(camera, type, duration) ==
    [NoAction EXCEPT !.action = "camera_move", !.camera = camera, !.type = type,
                     !.duration = duration]

Event(name, start_time, end_time, actions) ==
    [name |-> name, start_time |-> start_time, end_time |-> end_time,
     actions |-> actions]

Programme(name, events) == [name |-> name, events |-> events]

\* The event of the test fixture: one full-screen mode of 10 and one Left move of 2.
TestEvent ==
    Event("Test Event", 1, 3,
          <<VideoMode("fullscreen_0", 10), CameraMove(0, "Left", 2)>>)

\* Audio of 2 and video of 5 together, then a mode.
MediaEvent ==
    Event("Media", 0, 2,
          <<PlayAudio("kirtan.mp3", 2), PlayVideo("intro.mp4", 5),
            VideoMode("fullscreen_0", 1)>>)

\* Audio that outlasts a video whose file runs out of frames early.
ShortVideoEvent ==
    Event("ShortVideo", 2, 3,
          <<PlayVideo("short.mp4", 3), PlayAudio("kirtan.mp3", 3)>>)

\* Three moves around a mode that is shorter than the moves together.
MovesEvent ==
    Event("Moves", 0, 2,
          <<CameraMove(0, "Left", 1), VideoMode("fullscreen_0", 2),
            CameraMove(1, "Right", 1), CameraMove(5, "Up", 2)>>)

\* Two modes, the second a dual view, with one move.
TwoModesEvent ==
    Event("TwoModes", 1, 3,
          <<VideoMode("dual_0_1", 1), CameraMove(1, "Down", 1),
            VideoMode("fullscreen_0", 1)>>)

\* Moves only: nothing drains the queue in this event.
MovesOnlyEvent ==
    Event("MovesOnly", 0, 3, <<CameraMove(0, "ZoomInc", 1)>>)

\* An audio file that cannot be loaded, then a mode.
MissingAudioEvent ==
    Event("MissingAudio", 0, 2,
          <<PlayAudio("missing.mp3", 1), VideoMode("fullscreen_0", 1)>>)

\* A mode name that mode_config does not define, then a known mode.
UnknownModeEvent ==
    Event("UnknownMode", 0, 2,
          <<VideoMode("no_such_mode", 1), VideoMode("fullscreen_0", 1)>>)

\* Two play_audio actions: the first task loses its reference.
TwoAudioEvent ==
    Event("TwoAudio", 0, 2,
          <<PlayAudio("kirtan.mp3", 3), PlayAudio("bell.mp3", 1),
            VideoMode("fullscreen_0", 1)>>)

\* A video file that does not exist, alone.
MissingVideoEvent ==
    Event("MissingVideo", 1, 2, <<PlayVideo("missing.mp4", 2)>>)

\* A window that starts and ends at the same time.
EmptyWindowEvent ==
    Event("EmptyWindow", 2, 2, <<VideoMode("fullscreen_0", 1)>>)

\* A window written to run over midnight: its start is later than its end.
MidnightEvent ==
    Event("Midnight", 3, 1, <<VideoMode("fullscreen_0", 1)>>)

Schedules ==
    { <<Programme("Fixture", <<TestEvent>>)>>,
      <<Programme("Media", <<MediaEvent, ShortVideoEvent>>)>>,
      <<Programme("Morning", <<MovesEvent>>),
        Programme("Overlap", <<TwoModesEvent, MissingVideoEvent>>)>>,
      <<Programme("Queue", <<MovesOnlyEvent, TwoModesEvent>>)>>,
      <<Programme("Faulty", <<MissingAudioEvent, MovesEvent>>)>>,
      <<Programme("Faulty2", <<UnknownModeEvent, MovesOnlyEvent>>)>>,
      <<Programme("Bells", <<TwoAudioEvent, MovesOnlyEvent>>)>>,
      <<Programme("Night", <<EmptyWindowEvent, MidnightEvent>>),
        Programme("Dawn", <<MissingVideoEvent>>)>> }

(***************************************************************************)
(* The environment the actions touch: files and the mode configuration.    *)
(***************************************************************************)
\* pygame.mixer.music.load raises for a file it cannot load.
AudioLoads(file) == file # "missing.mp3"

\* Ticks until cap.read() runs out of frames; 0 when the capture does not open.
VideoFrames(file) ==
    CASE file = "intro.mp4" -> 9
      [] file = "short.mp4" -> 1
      [] OTHER -> 0

\* mode_config['modes'].get(mode)
ModeSettings(mode) ==
    CASE mode = "fullscreen_0" ->
            [type |-> "full_screen", cam_top_left |-> 0, cam_bottom_right |-> 0]
      [] mode = "dual_0_1" ->
            [type |-> "dual_view", cam_top_left |-> 0, cam_bottom_right |-> 1]
      [] OTHER ->
            [type |-> "None", cam_top_left |-> 0, cam_bottom_right |-> 0]

\* A roster position (0-based, as in the source) holds a camera with a frame.
HasFrame(cams, index) == index + 1 <= Len(cams) /\ cams[index + 1].frame

\* One iteration of the display loop: TRUE when the compositor returns,
\* FALSE when it raises (no settings, no such camera, or no frame to resize).
Compose(mode_settings, cams) ==
    CASE mode_settings.type = "full_screen" -> HasFrame(cams, 0)
      [] mode_settings.type = "dual_view" ->
            /\ HasFrame(cams, mode_settings.cam_top_left)
            /\ HasFrame(cams, mode_settings.cam_bottom_right)
      [] OTHER -> FALSE

(***************************************************************************)
(* Tasks.                                                                  *)
(***************************************************************************)
NoTask == [kind |-> "none", st |-> "none", wake |-> 0, t0 |-> 0, action |-> NoAction]

NewTask(kind, action) == [NoTask EXCEPT !.kind = kind, !.st = "ready", !.action = action]

NoDisplay ==
    [st |-> "none", wake |-> 0, end_time |-> 0, t0 |-> 0, qsum |-> 0,
     action |-> NoAction]

NewDrain == [st |-> "ready", wake |-> 0, task |-> NoAction]

Live(t) == t.st \in {"ready", "sleeping"}

Runnable(t) == t.st = "ready" \/ (t.st = "sleeping" /\ t.wake <= clock)

Cancel(t) == IF Live(t) THEN [t EXCEPT !.st = "cancelled"] ELSE t

CancelAll(ts) == [i \in DOMAIN ts |-> Cancel(ts[i])]

\* How long play_video keeps going: its duration, or until the frames run out.
VideoRunTime(action) == Min(action.duration, VideoFrames(action.file))

\* One step of play_audio or play_video, from one await to the next.
StepMedia(t) ==
    IF t.st = "sleeping" THEN [t EXCEPT !.st = "done"]
    ELSE IF t.kind = "audio"
         THEN IF AudioLoads(t.action.file)
              THEN [t EXCEPT !.st = "sleeping", !.t0 = clock,
                             !.wake = clock + t.action.duration]
              ELSE [t EXCEPT !.st = "failed", !.t0 = clock]
         ELSE IF VideoRunTime(t.action) > 0
              THEN [t EXCEPT !.st = "sleeping", !.t0 = clock,
                             !.wake = clock + VideoRunTime(t.action)]
              ELSE [t EXCEPT !.st = "done", !.t0 = clock]

(***************************************************************************)
(* The roster and the frame slots.                                         *)
(***************************************************************************)
Camera(camera_id) == [camera_id |-> camera_id, frame |-> FALSE]

Rosters == { <<>>, <<Camera(0)>>, <<Camera(0), Camera(1)>> }

\* The acquisition thread of camera i stores a frame in the slot.
CaptureFrame(i) ==
    /\ wpc \notin {"exited", "crashed"}
    /\ ~cameras[i].frame
    /\ cameras' = [cameras EXCEPT ![i].frame = TRUE]
    /\ UNCHANGED <<schedule, debug_time, clock, wpc, time_now, passes, cursor,
                   dispatch_log, dpc, audio_task, video_task, video_mode_tasks,
                   mode_idx, orphans, camera_move_queue, display_task,
                   drain_tasks, ptz_log, enq_log, t_dispatch, t_media, mode_log>>
    /\ UNCHANGED <<avars, rvars, hvars, fvars>>

\* A failed read stores None in the slot.
FrameLost(i) ==
    /\ wpc \notin {"exited", "crashed"}
    /\ cameras[i].frame
    /\ cameras' = [cameras EXCEPT ![i].frame = FALSE]
    /\ UNCHANGED <<schedule, debug_time, clock, wpc, time_now, passes, cursor,
                   dispatch_log, dpc, audio_task, video_task, video_mode_tasks,
                   mode_idx, orphans, camera_move_queue, display_task,
                   drain_tasks, ptz_log, enq_log, t_dispatch, t_media, mode_log>>
    /\ UNCHANGED <<avars, rvars, hvars, fvars>>

(***************************************************************************)
(* main(): the schedule walker.                                            *)
(***************************************************************************)
RECURSIVE ScanOrder(_)
\* for programme in schedule["programmes"]: for event in programme["events"]
ScanOrder(programmes) ==
    IF programmes = <<>> THEN <<>>
    ELSE Head(programmes).events \o ScanOrder(Tail(programmes))

\* time_now = debug_time if debug_time else datetime.now().time()
SampleTime == IF debug_time # <<>> THEN debug_time[1] ELSE clock

\* A window closed at its end.
InWindowClosed(event, t) == event.start_time <= t /\ t <= event.end_time

\* if event_start <= time_now < event_end
InWindow(event, t) == event.start_time <= t /\ t < event.end_time

\* The time is sampled again for the test of every event.
MatchTimeSampledAgain == SampleTime

\* The time the test of every event of the pass uses: time_now, assigned at
\* the top of the while loop and nowhere else.
MatchTime == time_now

\* if debug_time: exit()
ExitAfterPass == debug_time # <<>>

\* The dispatcher started as a task and not awaited.
DispatcherNotAwaited == dpc # "Idle"

\* await action_dispatcher(...) has returned.
DispatcherReturned == dpc = "Done"

OfKind(actions, kind) ==
    LET Is(a) == a.action = kind IN SelectSeq(actions, Is)

\* The task the variable refers to after the classify loop: the last one created.
LastTask(kind, actions) ==
    IF actions = <<>> THEN NoTask ELSE NewTask(kind, actions[Len(actions)])

\* The tasks created by the classify loop whose reference was overwritten.
Overwritten(kind, actions) ==
    [i \in 1..(Len(actions) - 1) |-> NewTask(kind, actions[i])]

LiveOnly(ts) == SelectSeq(ts, Live)

\* camera_move_queue.appendleft(action), one move after the other
EnqueueLeft(queue, moves) ==
    [i \in 1..Len(moves) |-> moves[Len(moves) + 1 - i]] \o queue

\* camera_move_queue.append(action), one move after the other
Enqueue(queue, moves) == queue \o moves

BeginPass ==
    /\ wpc = "loop"
    /\ passes < MaxPasses
    /\ time_now' = SampleTime
    /\ passes' = passes + 1
    /\ cursor' = 1
    /\ dispatch_log' = <<>>
    /\ wpc' = "scan"
    /\ UNCHANGED <<schedule, cameras, debug_time, clock, dpc, audio_task,
                   video_task, video_mode_tasks, mode_idx, orphans,
                   camera_move_queue, display_task, drain_tasks, ptz_log,
                   enq_log, t_dispatch, t_media, mode_log>>
    /\ UNCHANGED <<avars, rvars, hvars, fvars>>

\* The event under the cursor does not contain time_now: next event.
SkipEvent ==
    /\ wpc = "scan"
    /\ cursor <= Len(ScanOrder(schedule))
    /\ ~InWindow(ScanOrder(schedule)[cursor], MatchTime)
    /\ cursor' = cursor + 1
    /\ UNCHANGED <<schedule, cameras, debug_time, clock, wpc, time_now, passes,
                   dispatch_log, dpc, audio_task, video_task, video_mode_tasks,
                   mode_idx, orphans, camera_move_queue, display_task,
                   drain_tasks, ptz_log, enq_log, t_dispatch, t_media, mode_log>>
    /\ UNCHANGED <<avars, rvars, hvars, fvars>>

\* The event under the cursor contains time_now: action_dispatcher is called and
\* runs its classify loop (it has no await).
DispatchEvent ==
    /\ wpc = "scan"
    /\ cursor <= Len(ScanOrder(schedule))
    /\ InWindow(ScanOrder(schedule)[cursor], MatchTime)
    /\ LET actions == ScanOrder(schedule)[cursor].actions
           audio == OfKind(actions, "play_audio")
           video == OfKind(actions, "play_video")
           moves == OfKind(actions, "camera_move")
       IN /\ audio_task' = LastTask("audio", audio)
          /\ video_task' = LastTask("video", video)
          /\ orphans' = LiveOnly(orphans) \o Overwritten("audio", audio)
                            \o Overwritten("video", video)
          /\ video_mode_tasks' = OfKind(actions, "video_mode")
          /\ camera_move_queue' = Enqueue(camera_move_queue, moves)
          /\ enq_log' = enq_log \o moves
    /\ dispatch_log' = Append(dispatch_log, ScanOrder(schedule)[cursor].name)
    /\ wpc' = "dispatching"
    /\ dpc' = "ConcurrentMedia"
    /\ mode_idx' = 1
    /\ t_dispatch' = clock
    /\ t_media' = clock
    /\ mode_log' = <<>>
    /\ UNCHANGED <<schedule, cameras, debug_time, clock, time_now, passes,
                   cursor, display_task, drain_tasks, ptz_log>>
    /\ UNCHANGED <<avars, rvars, hvars, fvars>>

\* The dispatcher returned: main goes on with the next event.
WalkerResume ==
    /\ wpc = "dispatching"
    /\ DispatcherReturned
    /\ dpc' = "Idle"
    /\ wpc' = "scan"
    /\ cursor' = cursor + 1
    /\ UNCHANGED <<schedule, cameras, debug_time, clock, time_now, passes,
                   dispatch_log, audio_task, video_task, video_mode_tasks,
                   mode_idx, orphans, camera_move_queue, display_task,
                   drain_tasks, ptz_log, enq_log, t_dispatch, t_media, mode_log>>
    /\ UNCHANGED <<avars, rvars, hvars, fvars>>

\* The scan is over: exit() with a debug time (asyncio.run cancels what is left),
\* otherwise back to the top of the loop.
EndPass ==
    /\ wpc = "scan"
    /\ cursor > Len(ScanOrder(schedule))
    /\ IF ExitAfterPass
       THEN /\ wpc' = "exited"
            /\ orphans' = CancelAll(orphans)
       ELSE /\ wpc' = "loop"
            /\ UNCHANGED orphans
    /\ UNCHANGED <<schedule, cameras, debug_time, clock, time_now, passes,
                   cursor, dispatch_log, dpc, audio_task, video_task,
                   video_mode_tasks, mode_idx, camera_move_queue, display_task,
                   drain_tasks, ptz_log, enq_log, t_dispatch, t_media, mode_log>>
    /\ UNCHANGED <<avars, rvars, hvars, fvars>>

(***************************************************************************)
(* play_audio / play_video tasks.                                          *)
(***************************************************************************)
RunAudio ==
    /\ wpc = "dispatching"
    /\ Runnable(audio_task)
    /\ audio_task' = StepMedia(audio_task)
    /\ UNCHANGED <<schedule, cameras, debug_time, clock, wpc, time_now, passes,
                   cursor, dispatch_log, dpc, video_task, video_mode_tasks,
                   mode_idx, orphans, camera_move_queue, display_task,
                   drain_tasks, ptz_log, enq_log, t_dispatch, t_media, mode_log>>
    /\ UNCHANGED <<avars, rvars, hvars, fvars>>

RunVideo ==
    /\ wpc = "dispatching"
    /\ Runnable(video_task)
    /\ video_task' = StepMedia(video_task)
    /\ UNCHANGED <<schedule, cameras, debug_time, clock, wpc, time_now, passes,
                   cursor, dispatch_log, dpc, audio_task, video_mode_tasks,
                   mode_idx, orphans, camera_move_queue, display_task,
                   drain_tasks, ptz_log, enq_log, t_dispatch, t_media, mode_log>>
    /\ UNCHANGED <<avars, rvars, hvars, fvars>>

RunOrphan(i) ==
    /\ wpc = "dispatching"
    /\ Runnable(orphans[i])
    /\ orphans' = [orphans EXCEPT ![i] = StepMedia(orphans[i])]
    /\ UNCHANGED <<schedule, cameras, debug_time, clock, wpc, time_now, passes,
                   cursor, dispatch_log, dpc, audio_task, video_task,
                   video_mode_tasks, mode_idx, camera_move_queue, display_task,
                   drain_tasks, ptz_log, enq_log, t_dispatch, t_media, mode_log>>
    /\ UNCHANGED <<avars, rvars, hvars, fvars>>

(***************************************************************************)
(* action_dispatcher(): the media phase.                                   *)
(***************************************************************************)
\* An if / elif chain that awaits the video task alone when both are set.
MediaAwaitedVideoFirst ==
    IF video_task.kind # "none" THEN {video_task}
    ELSE {t \in {audio_task} : t.kind # "none"}

\* What the if / elif chain awaits: every task variable that is set.
MediaAwaited == {t \in {audio_task, video_task} : t.kind # "none"}

MediaGathered == \A t \in MediaAwaited : t.st = "done"

MediaRaised == \E t \in MediaAwaited : t.st = "failed"

MediaJoin ==
    /\ wpc = "dispatching"
    /\ dpc = "ConcurrentMedia"
    /\ MediaGathered
    /\ dpc' = "SequentialModes"
    /\ t_media' = clock
    /\ UNCHANGED <<schedule, cameras, debug_time, clock, wpc, time_now, passes,
                   cursor, dispatch_log, audio_task, video_task,
                   video_mode_tasks, mode_idx, orphans, camera_move_queue,
                   display_task, drain_tasks, ptz_log, enq_log, t_dispatch,
                   mode_log>>
    /\ UNCHANGED <<avars, rvars, hvars, fvars>>

(***************************************************************************)
(* process_camera_move_queue() and process_camera_move().                  *)
(***************************************************************************)
\* camera_move_queue.pop(): the newest entry instead of the oldest.
pop_newest(q) == [task |-> q[Len(q)], rest |-> SubSeq(q, 1, Len(q) - 1)]

\* camera_move_queue.popleft()
popleft(q) == [task |-> Head(q), rest |-> Tail(q)]

\* if cameras: cameras[0].send_ptz_command(...): the call, as the log records it
\* (call is "move" for the command of the move and "stop" for its Stop).
SendPtz(log, call, task, parameter, id) ==
    IF cameras # <<>>
    THEN Append(log, [call |-> call, camera |-> cameras[1].camera_id,
                      parameter |-> parameter, id |-> id, task |-> task,
                      at |-> clock, display |-> display_task.st,
                      mode_end |-> display_task.t0 + display_task.action.duration])
    ELSE log

\* One step of a drain coroutine: after a sleep the Stop of the move that was
\* sleeping, then the loop test and, with a move left, its command and its sleep.
DrainStep(i) ==
    /\ wpc = "dispatching"
    /\ Runnable(drain_tasks[i])
    /\ LET d == drain_tasks[i]
           stopped == IF d.st = "sleeping"
                      THEN SendPtz(ptz_log, "stop", d.task, "Stop", 0)
                      ELSE ptz_log
       IN IF camera_move_queue # <<>>
          THEN LET p == popleft(camera_move_queue)
               IN /\ camera_move_queue' = p.rest
                  /\ ptz_log' = SendPtz(stopped, "move", p.task, p.task.type,
                                      p.task.marker)
                  /\ drain_tasks' =
                        [drain_tasks EXCEPT ![i] =
                            [st |-> "sleeping", wake |-> clock + p.task.duration,
                             task |-> p.task]]
          ELSE /\ camera_move_queue' = camera_move_queue
               /\ ptz_log' = stopped
               /\ drain_tasks' =
                     [drain_tasks EXCEPT ![i] =
                         [st |-> "done", wake |-> 0, task |-> NoAction]]
    /\ UNCHANGED <<schedule, cameras, debug_time, clock, wpc, time_now, passes,
                   cursor, dispatch_log, dpc, audio_task, video_task,
                   video_mode_tasks, mode_idx, orphans, display_task, enq_log,
                   t_dispatch, t_media, mode_log>>
    /\ UNCHANGED <<avars, rvars, hvars, fvars>>

(***************************************************************************)
(* display_video_mode().                                                   *)
(***************************************************************************)
\* await asyncio.sleep(0.1): one tick.
DisplayCadence == 1

\* One step of the display coroutine: the loop test and, inside the window, one
\* composition and the sleep of one cadence.
DisplayStep ==
    /\ wpc = "dispatching"
    /\ Runnable(display_task)
    /\ LET end_time == IF display_task.st = "ready"
                       THEN clock + display_task.action.duration
                       ELSE display_task.end_time
       IN display_task' =
            IF clock < end_time
            THEN IF Compose(ModeSettings(display_task.action.mode), cameras)
                 THEN [display_task EXCEPT !.st = "sleeping",
                                           !.end_time = end_time,
                                           !.wake = clock + DisplayCadence]
                 ELSE [display_task EXCEPT !.st = "failed", !.end_time = end_time]
            ELSE [display_task EXCEPT !.st = "done", !.end_time = end_time]
    /\ UNCHANGED <<schedule, cameras, debug_time, clock, wpc, time_now, passes,
                   cursor, dispatch_log, dpc, audio_task, video_task,
                   video_mode_tasks, mode_idx, orphans, camera_move_queue,
                   drain_tasks, ptz_log, enq_log, t_dispatch, t_media, mode_log>>
    /\ UNCHANGED <<avars, rvars, hvars, fvars>>

(***************************************************************************)
(* action_dispatcher(): the mode phase.                                    *)
(***************************************************************************)
\* The display awaited alone, the drain left running.
ModeGatheredDisplayOnly == display_task.st = "done"

\* asyncio.gather(display_video_mode(...), process_camera_move_queue()) returned.
ModeGathered ==
    /\ display_task.st = "done"
    /\ \A i \in DOMAIN drain_tasks : drain_tasks[i].st = "done"

ModeRaised == display_task.st = "failed"

\* The for loop takes the video_mode actions from the last to the first.
CurrentModeReversed(tasks, idx) == tasks[Len(tasks) + 1 - idx]

\* for video_mode_task in video_mode_tasks: the action of this iteration
CurrentMode(tasks, idx) == tasks[idx]

\* The next video_mode action: gather creates the display and the drain task.
ModeStart ==
    /\ wpc = "dispatching"
    /\ dpc = "SequentialModes"
    /\ display_task.st = "none"
    /\ mode_idx <= Len(video_mode_tasks)
    /\ display_task' = [NoDisplay EXCEPT !.st = "ready", !.t0 = clock,
                                         !.qsum = SumDurations(camera_move_queue),
                                         !.action = CurrentMode(video_mode_tasks,
                                                               mode_idx)]
    /\ drain_tasks' = Append(drain_tasks, NewDrain)
    /\ UNCHANGED <<schedule, cameras, debug_time, clock, wpc, time_now, passes,
                   cursor, dispatch_log, dpc, audio_task, video_task,
                   video_mode_tasks, mode_idx, orphans, camera_move_queue,
                   ptz_log, enq_log, t_dispatch, t_media, mode_log>>
    /\ UNCHANGED <<avars, rvars, hvars, fvars>>

\* The gather of the current mode returned: on to the next mode.
ModeJoin ==
    /\ wpc = "dispatching"
    /\ dpc = "SequentialModes"
    /\ ModeGathered
    /\ mode_log' = Append(mode_log,
                          [mode |-> mode_idx, start |-> display_task.t0,
                           end |-> clock, duration |-> display_task.action.duration,
                           qsum |-> display_task.qsum,
                           action |-> display_task.action])
    /\ display_task' = NoDisplay
    /\ drain_tasks' = LiveOnly(drain_tasks)
    /\ mode_idx' = mode_idx + 1
    /\ UNCHANGED <<schedule, cameras, debug_time, clock, wpc, time_now, passes,
                   cursor, dispatch_log, dpc, audio_task, video_task,
                   video_mode_tasks, orphans, camera_move_queue, ptz_log,
                   enq_log, t_dispatch, t_media>>
    /\ UNCHANGED <<avars, rvars, hvars, fvars>>

\* The for loop over video_mode_tasks is over: the dispatcher returns.
DispatcherDone ==
    /\ wpc = "dispatching"
    /\ dpc = "SequentialModes"
    /\ display_task.st = "none"
    /\ mode_idx > Len(video_mode_tasks)
    /\ dpc' = "Done"
    /\ UNCHANGED <<schedule, cameras, debug_time, clock, wpc, time_now, passes,
                   cursor, dispatch_log, audio_task, video_task,
                   video_mode_tasks, mode_idx, orphans, camera_move_queue,
                   display_task, drain_tasks, ptz_log, enq_log, t_dispatch,
                   t_media, mode_log>>
    /\ UNCHANGED <<avars, rvars, hvars, fvars>>

\* An awaited task raised: the exception leaves action_dispatcher and main, and
\* asyncio.run cancels every task that is left before the process ends.
DispatcherRaise ==
    /\ wpc = "dispatching"
    /\ \/ dpc = "ConcurrentMedia" /\ MediaRaised
       \/ dpc = "SequentialModes" /\ ModeRaised
    /\ dpc' = "Raised"
    /\ wpc' = "crashed"
    /\ audio_task' = Cancel(audio_task)
    /\ video_task' = Cancel(video_task)
    /\ orphans' = CancelAll(orphans)
    /\ display_task' = Cancel(display_task)
    /\ drain_tasks' = CancelAll(drain_tasks)
    /\ UNCHANGED <<schedule, cameras, debug_time, clock, time_now, passes,
                   cursor, dispatch_log, video_mode_tasks, mode_idx,
                   camera_move_queue, ptz_log, enq_log, t_dispatch, t_media,
                   mode_log>>
    /\ UNCHANGED <<avars, rvars, hvars, fvars>>

(***************************************************************************)
(* Time.                                                                   *)
(***************************************************************************)
TaskStepEnabled ==
    /\ wpc = "dispatching"
    /\ \/ Runnable(audio_task)
       \/ Runnable(video_task)
       \/ Runnable(display_task)
       \/ \E i \in DOMAIN orphans : Runnable(orphans[i])
       \/ \E i \in DOMAIN drain_tasks : Runnable(drain_tasks[i])

DispatcherStepEnabled ==
    /\ wpc = "dispatching"
    /\ \/ dpc = "ConcurrentMedia" /\ (MediaGathered \/ MediaRaised)
       \/ dpc = "SequentialModes"
            /\ (display_task.st = "none" \/ ModeGathered \/ ModeRaised)
       \/ dpc = "Done"

\* Time passes while every task sleeps, and while main spins between passes.
Tick ==
    /\ clock < MaxClock
    /\ wpc \in {"loop", "dispatching"}
    /\ ~TaskStepEnabled
    /\ ~DispatcherStepEnabled
    /\ clock' = clock + 1
    /\ UNCHANGED <<schedule, cameras, debug_time, wpc, time_now, passes, cursor,
                   dispatch_log, dpc, audio_task, video_task, video_mode_tasks,
                   mode_idx, orphans, camera_move_queue, display_task,
                   drain_tasks, ptz_log, enq_log, t_dispatch, t_media, mode_log>>
    /\ UNCHANGED <<avars, rvars, hvars, fvars>>

(***************************************************************************)
(* Camera.get_token(): login with retries.                                 *)
(***************************************************************************)
NoValue == <<>>

\* What the login endpoint can answer to one POST.
Responses ==
    {"ok", "network_error", "http_error", "empty_json", "not_json", "no_token"}

\* What one pass through the try block does with the answer: "token" returns the
\* token, "retry" falls through to the next attempt, "raise" leaves get_token
\* with an exception the except clause does not catch.
Outcome(response, escapes) ==
    CASE response = "ok" -> "token"
      [] response = "network_error" -> "retry"
      [] response = "http_error" -> "retry"
      [] response = "empty_json" -> "retry"
      [] response = "not_json" -> IF escapes THEN "raise" ELSE "retry"
      [] OTHER -> "raise"

(***************************************************************************)
(* Camera configurations, handles and constructors                         *)
(* (src/src/camera_interface.py, src/src/cameras, src/camera.py).          *)
(***************************************************************************)
NoError == [type |-> "none", message |-> "none"]

Error(type, message) == [type |-> type, message |-> message]

\* The frame slot: None, or an array of shape (height, width, 3).
NoFrame == [present |-> FALSE, height |-> 0, width |-> 0]

Frame(height, width) == [present |-> TRUE, height |-> height, width |-> width]

\* One entry of mode_config['cameras'].  A key the entry does not have is <<>>,
\* a key it has is <<value>>; https is the nested dictionary, "" where a key of
\* it is absent.
NoConfig ==
    [id |-> <<>>, type |-> <<>>, source |-> <<>>, fps |-> <<>>, width |-> <<>>,
     height |-> <<>>, video_path |-> "", rtsp_url |-> "",
     https |-> [ip |-> "", username |-> "", password |-> ""]]

\* dict.get(key, default)
Get(field, default) == IF field = <<>> THEN default ELSE field[1]

GeneratedConfig ==
    [NoConfig EXCEPT !.id = <<0>>, !.type = <<"mock">>, !.source = <<"generated">>,
                     !.fps = <<10>>, !.width = <<320>>, !.height = <<240>>]

DefaultsConfig == [NoConfig EXCEPT !.type = <<"mock">>]

VideoConfig ==
    [NoConfig EXCEPT !.id = <<2>>, !.type = <<"mock">>, !.source = <<"video">>,
                     !.video_path = "clip.mp4"]

MissingVideoConfig ==
    [NoConfig EXCEPT !.id = <<3>>, !.type = <<"mock">>, !.source = <<"video">>,
                     !.video_path = "gone.mp4"]

BogusSourceConfig ==
    [NoConfig EXCEPT !.id = <<4>>, !.type = <<"mock">>, !.source = <<"hologram">>]

IPConfig ==
    [NoConfig EXCEPT !.id = <<1>>, !.type = <<"ip_camera">>,
                     !.rtsp_url = "rtsp://10.0.0.1/stream",
                     !.https = [ip |-> "10.0.0.1", username |-> "admin",
                                password |-> "secret"]]

\* No type key: create_cameras_from_config() takes 'ip_camera'.
NoTypeConfig == [IPConfig EXCEPT !.id = <<>>, !.type = <<>>]

IPNoPasswordConfig == [IPConfig EXCEPT !.id = <<5>>, !.https.password = ""]

\* The camera at 10.0.0.2 answers the login with a body that has no token.
IPBadLoginConfig ==
    [IPConfig EXCEPT !.id = <<6>>, !.rtsp_url = "rtsp://10.0.0.2/stream",
                     !.https.ip = "10.0.0.2"]

\* Nothing answers at 10.0.0.3.
IPUnreachableConfig ==
    [IPConfig EXCEPT !.id = <<7>>, !.rtsp_url = "rtsp://10.0.0.3/stream",
                     !.https.ip = "10.0.0.3"]

UnknownKindConfig == [GeneratedConfig EXCEPT !.id = <<8>>, !.type = <<"nonexistent">>]

Configs ==
    {GeneratedConfig, DefaultsConfig, VideoConfig, MissingVideoConfig,
     BogusSourceConfig, IPConfig, NoTypeConfig, IPNoPasswordConfig,
     IPBadLoginConfig, IPUnreachableConfig, UnknownKindConfig}

\* os.path.exists(video_path), and the file opens
FileExists(path) == path = "clip.mp4"

\* What the login endpoint of the camera at ip answers, attempt by attempt.
LoginAnswers(ip) ==
    CASE ip = "10.0.0.1" -> <<"network_error", "ok", "ok">>
      [] ip = "10.0.0.2" -> <<"http_error", "no_token", "ok">>
      [] OTHER -> <<"network_error", "network_error", "network_error">>

\* cv2.VideoCapture(rtsp_url) opens the stream
StreamOpens(ip) == ip \in {"10.0.0.1", "10.0.0.2"}

\* get_token(retries=3): the loop as a function of the answers, from attempt k.
DefaultRetries == 3

RECURSIVE get_token(_, _, _)
get_token(answers, k, n) ==
    IF k > n
    THEN [raised |-> FALSE, error |-> NoError, token |-> NoValue]
    ELSE LET outcome == Outcome(answers[k], FALSE)
         IN CASE outcome = "token" ->
                   [raised |-> FALSE, error |-> NoError, token |-> <<k>>]
              [] outcome = "retry" -> get_token(answers, k + 1, n)
              [] OTHER ->
                   [raised |-> TRUE, error |-> Error("KeyError", "value"),
                    token |-> NoValue]

\* The wrapped Camera object of an IPCamera (src/camera.py).
NoCamera ==
    [exists |-> FALSE, token |-> NoValue, running |-> FALSE, cap_open |-> FALSE,
     frame |-> NoFrame]

NoHandle ==
    [class |-> "none", camera_id |-> 0, config |-> NoConfig, running |-> FALSE,
     frame |-> NoFrame, source |-> "none", fps |-> 0, width |-> 0, height |-> 0,
     cap_open |-> FALSE, camera |-> NoCamera]

\* What a call that builds a handle gives: the handle, or the exception.
Returned(h) == [raised |-> FALSE, error |-> NoError, handle |-> h]

Raised(e) == [raised |-> TRUE, error |-> e, handle |-> NoHandle]

\* CameraInterface.__init__
CameraInterfaceInit(class, camera_id, config) ==
    [NoHandle EXCEPT !.class = class, !.camera_id = camera_id, !.config = config]

DefaultFps == 30
DefaultWidth == 640
DefaultHeight == 480

\* MockCamera.__init__ and _init_source() (webcam sources, which need a device
\* on the host, are not among the configurations)
MockCameraInit(camera_id, config) ==
    LET source == Get(config.source, "generated")
        h == [CameraInterfaceInit("MockCamera", camera_id, config) EXCEPT
                 !.source = source,
                 !.fps = Get(config.fps, DefaultFps),
                 !.width = Get(config.width, DefaultWidth),
                 !.height = Get(config.height, DefaultHeight)]
    IN CASE source = "video" ->
              IF config.video_path = "" \/ ~FileExists(config.video_path)
              THEN Raised(Error("ValueError", "Video file not found"))
              ELSE Returned([h EXCEPT !.cap_open = TRUE])
         [] source \in {"images", "generated"} -> Returned(h)
         [] OTHER -> Raised(Error("ValueError", "Unknown mock camera source"))

\* IPCamera.__init__ and Camera.__init__
IPCameraInit(camera_id, config) ==
    LET https == config.https
        h == CameraInterfaceInit("IPCamera", camera_id, config)
        login == get_token(LoginAnswers(https.ip), 1, DefaultRetries)
    IN IF "" \in {config.rtsp_url, https.ip, https.username, https.password}
       THEN Raised(Error("ValueError", "missing required configuration"))
       ELSE IF login.raised
            THEN Raised(login.error)
            ELSE Returned([h EXCEPT !.camera =
                              [exists |-> TRUE, token |-> login.token,
                               running |-> TRUE,
                               cap_open |-> StreamOpens(https.ip),
                               frame |-> NoFrame]])

\* camera_class(camera_id, config)
Construct(class, camera_id, config) ==
    IF class = "MockCamera"
    THEN MockCameraInit(camera_id, config)
    ELSE IPCameraInit(camera_id, config)

(***************************************************************************)
(* CameraRegistry (src/src/camera_registry.py): the operations as          *)
(* functions of the registry.                                              *)
(***************************************************************************)
KindNames == {"ip_camera", "mock"}

Classes == {"IPCamera", "MockCamera"}

\* The registry once the camera modules are imported (@register_camera).
ImportedRegistry ==
    [k \in KindNames |-> IF k = "mock" THEN "MockCamera" ELSE "IPCamera"]

\* issubclass(camera_class, CameraInterface)
issubclass(camera_class) == camera_class \in Classes

\* cls._cameras[camera_type] = camera_class
register(reg, camera_type, camera_class) ==
    [k \in DOMAIN reg \cup {camera_type} |->
        IF k = camera_type THEN camera_class ELSE reg[k]]

\* list(cls._cameras.keys()), as a set
list_available_cameras(reg) == DOMAIN reg

\* CameraRegistry.get_camera_class(camera_type): the class, or ValueError
get_camera_class(reg, camera_type) ==
    IF camera_type \notin DOMAIN reg
    THEN [raised |-> TRUE, error |-> Error("ValueError", "Unknown camera type"),
          class |-> "none"]
    ELSE [raised |-> FALSE, error |-> NoError, class |-> reg[camera_type]]

\* unregister() that empties the table.
unregisterEverything(reg, camera_type) == [k \in {} |-> "none"]

\* del cls._cameras[camera_type]
unregister(reg, camera_type) == [k \in DOMAIN reg \ {camera_type} |-> reg[k]]

\* create_camera() answers an unregistered type with None.
UnknownTypeReturnsNone(camera_type) == Returned(NoHandle)

\* raise ValueError(f"Unknown camera type: ...")
UnknownType(camera_type) == Raised(Error("ValueError", "Unknown camera type"))

\* camera_class(0, config): the identifier is not handed on.
InstantiateUnnumbered(camera_class, camera_id, config) ==
    Construct(camera_class, 0, config)

\* return camera_class(camera_id, config)
Instantiate(camera_class, camera_id, config) ==
    Construct(camera_class, camera_id, config)

\* except Exception: log and return None.
SwallowError(made) == Returned(NoHandle)

\* except Exception as e: logger.error(...); raise
Reraise(made) == made

\* CameraRegistry.create_camera
create_camera(reg, camera_type, camera_id, config) ==
    IF camera_type \notin DOMAIN reg
    THEN UnknownType(camera_type)
    ELSE LET made == Instantiate(reg[camera_type], camera_id, config)
         IN IF made.raised THEN Reraise(made) ELSE made

\* The builder's except clause names ValueError only.
BuilderCatchesValueError(error) == error.type = "ValueError"

\* create_cameras_from_config(): except Exception
BuilderCatches(error) == error.type \in {"ValueError", "KeyError", "TypeError"}

\* cameras[cam_top_left] in the display helpers, cameras[0] in the dispatcher:
\* the roster is a list and the identifier is used as a list index (from 0,
\* from the end when negative, IndexError outside).
RosterLookup(roster, ident) ==
    CASE 0 <= ident /\ ident < Len(roster) ->
            [found |-> TRUE, handle |-> roster[ident + 1]]
      [] ident < 0 /\ -ident <= Len(roster) ->
            [found |-> TRUE, handle |-> roster[Len(roster) + ident + 1]]
      [] OTHER -> [found |-> FALSE, handle |-> NoHandle]

NoRegistryCall ==
    [op |-> "none", camera_type |-> "none", camera_id |-> 0, config |-> NoConfig,
     class |-> "none", raised |-> FALSE, error |-> NoError, handle |-> NoHandle,
     returned |-> "none"]

RegistryIdle ==
    /\ registry = <<>> /\ rpc = "idle" /\ cameras_config = <<>> /\ build_i = 0
    /\ built = <<>> /\ build_error = NoError /\ last_call = NoRegistryCall
    /\ workers = <<>>

(***************************************************************************)
(* One camera handle and the threads that call it.                         *)
(***************************************************************************)
Callers == {1, 2}

\* A caller's call: the method, where the caller is in it ("start": past the
\* check of capture_frames(); "join": in the join of stop(); "returned"), how it
\* ended, and the method this caller called before.
NoCall == [op |-> "none", pc |-> "none", result |-> "none", before |-> "none"]

NoPtz ==
    [command |-> "none", parameter |-> "none", id |-> 0, device_calls |-> 0,
     raised |-> FALSE, returned |-> "none"]

HandleIdle ==
    /\ handle = NoHandle /\ threads = <<>> /\ calls = [c \in Callers |-> NoCall]
    /\ concurrent = FALSE /\ ptz_result = NoPtz

\* None, and a reference to the array heap[i]
None == <<>>

Ref(i) == <<i>>

Readers == {1, 2}

NoLoop == [source |-> "none", pc |-> "idle", running |-> FALSE, local |-> None]

FramesIdle ==
    /\ heap = <<>> /\ slot = None /\ lpc = NoLoop
    /\ held = [r \in Readers |-> [called |-> FALSE, ref |-> None]]

AuthIdle ==
    /\ retries = 0 /\ delay = 0 /\ json_error_escapes = FALSE /\ attempt = 0
    /\ endpoint = <<>>
    /\ auth_pc = "idle" /\ auth_clock = 0 /\ auth_log = <<>>
    /\ auth_result = [token |-> NoValue, session |-> NoValue]

DispatchIdle ==
    /\ schedule = <<>> /\ cameras = <<>> /\ debug_time = <<>> /\ clock = 0
    /\ wpc = "idle" /\ time_now = 0 /\ passes = 0 /\ cursor = 1
    /\ dispatch_log = <<>> /\ dpc = "Idle" /\ audio_task = NoTask
    /\ video_task = NoTask /\ video_mode_tasks = <<>> /\ mode_idx = 1
    /\ orphans = <<>> /\ camera_move_queue = <<>> /\ display_task = NoDisplay
    /\ drain_tasks = <<>> /\ ptz_log = <<>> /\ enq_log = <<>>
    /\ t_dispatch = 0 /\ t_media = 0 /\ mode_log = <<>>

(***************************************************************************)
(* The walker and the dispatcher.                                          *)
(***************************************************************************)
DebugTimes == {<<>>} \cup {<<t>> : t \in 0..MaxDebugTime}

Init ==
    /\ schedule \in Schedules
    /\ cameras \in Rosters
    /\ debug_time \in DebugTimes
    /\ clock = 0
    /\ wpc = "loop"
    /\ time_now = 0
    /\ passes = 0
    /\ cursor = 1
    /\ dispatch_log = <<>>
    /\ dpc = "Idle"
    /\ audio_task = NoTask
    /\ video_task = NoTask
    /\ video_mode_tasks = <<>>
    /\ mode_idx = 1
    /\ orphans = <<>>
    /\ camera_move_queue = <<>>
    /\ display_task = NoDisplay
    /\ drain_tasks = <<>>
    /\ ptz_log = <<>>
    /\ enq_log = <<>>
    /\ t_dispatch = 0
    /\ t_media = 0
    /\ mode_log = <<>>
    /\ AuthIdle
    /\ RegistryIdle
    /\ HandleIdle
    /\ FramesIdle

Next ==
    \/ BeginPass
    \/ SkipEvent
    \/ DispatchEvent
    \/ WalkerResume
    \/ EndPass
    \/ RunAudio
    \/ RunVideo
    \/ \E i \in DOMAIN orphans : RunOrphan(i)
    \/ MediaJoin
    \/ \E i \in DOMAIN drain_tasks : DrainStep(i)
    \/ DisplayStep
    \/ ModeStart
    \/ ModeJoin
    \/ DispatcherDone
    \/ DispatcherRaise
    \/ Tick
    \/ \E i \in DOMAIN cameras : CaptureFrame(i)
    \/ \E i \in DOMAIN cameras : FrameLost(i)

Spec == Init /\ [][Next]_vars

(***************************************************************************)
(* Camera.get_token() on its own.                                          *)
(***************************************************************************)
Token(n) == [token |-> <<n>>, session |-> <<n>>]

AuthInit ==
    /\ retries \in 0..MaxRetries
    /\ delay \in 0..MaxDelay
    /\ json_error_escapes \in BOOLEAN
    /\ endpoint \in [1..MaxRetries -> Responses]
    /\ attempt = 1
    /\ auth_pc = "post"
    /\ auth_clock = 0
    /\ auth_log = <<>>
    /\ auth_result = [token |-> NoValue, session |-> NoValue]
    /\ DispatchIdle
    /\ RegistryIdle
    /\ HandleIdle
    /\ FramesIdle

\* One pass through the body of the for loop: a fresh session, the POST, and what
\* the try block makes of the answer.
LoginAttempt ==
    /\ auth_pc = "post"
    /\ attempt <= retries
    /\ auth_log' = Append(auth_log, [attempt |-> attempt, at |-> auth_clock,
                                     response |-> endpoint[attempt]])
    /\ LET outcome == Outcome(endpoint[attempt], json_error_escapes)
       IN CASE outcome = "token" ->
                 /\ auth_result' = Token(attempt)
                 /\ auth_pc' = "returned"
                 /\ UNCHANGED attempt
            [] outcome = "retry" ->
                 /\ auth_pc' = IF attempt < retries THEN "sleep" ELSE "post"
                 /\ attempt' = IF attempt < retries THEN attempt ELSE attempt + 1
                 /\ UNCHANGED auth_result
            [] OTHER ->
                 /\ auth_pc' = "raised"
                 /\ UNCHANGED <<attempt, auth_result>>
    /\ UNCHANGED <<retries, delay, json_error_escapes, endpoint, auth_clock>>
    /\ UNCHANGED <<dvars, rvars, hvars, fvars>>

\* if attempt < retries: time.sleep(delay), then the next attempt.
SleepDelay ==
    /\ auth_pc = "sleep"
    /\ auth_clock' = auth_clock + delay
    /\ attempt' = attempt + 1
    /\ auth_pc' = "post"
    /\ UNCHANGED <<retries, delay, json_error_escapes, endpoint, auth_log,
                   auth_result>>
    /\ UNCHANGED <<dvars, rvars, hvars, fvars>>

\* The loop ran out of attempts: return None, None.
GiveUp ==
    /\ auth_pc = "post"
    /\ attempt > retries
    /\ auth_result' = [token |-> NoValue, session |-> NoValue]
    /\ auth_pc' = "returned"
    /\ UNCHANGED <<retries, delay, json_error_escapes, endpoint, attempt,
                   auth_clock, auth_log>>
    /\ UNCHANGED <<dvars, rvars, hvars, fvars>>

AuthNext == LoginAttempt \/ SleepDelay \/ GiveUp

SpecAuth == AuthInit /\ [][AuthNext]_vars

(***************************************************************************)
(* The registry and the roster builder on their own.                       *)
(***************************************************************************)
MaxConfigs == 2

CameraKinds == KindNames \cup {"nonexistent"}

CameraIds == {0, 7}

\* The configuration lists handed to create_cameras_from_config().
RECURSIVE ConfigLists(_)
ConfigLists(n) ==
    IF n = 0
    THEN {<<>>}
    ELSE LET shorter == ConfigLists(n - 1)
         IN shorter \cup {Append(l, c) : l \in {x \in shorter : Len(x) = n - 1},
                                         c \in Configs}

RegistryInit ==
    /\ registry = ImportedRegistry
    /\ rpc = "ready"
    /\ cameras_config = <<>>
    /\ build_i = 0
    /\ built = <<>>
    /\ build_error = NoError
    /\ last_call = NoRegistryCall
    /\ workers = <<>>
    /\ DispatchIdle
    /\ AuthIdle
    /\ HandleIdle
    /\ FramesIdle

\* CameraRegistry.register(camera_type, camera_class)
Register(camera_type, camera_class) ==
    /\ rpc = "ready"
    /\ IF issubclass(camera_class)
       THEN /\ registry' = register(registry, camera_type, camera_class)
            /\ last_call' = [NoRegistryCall EXCEPT !.op = "register",
                                !.camera_type = camera_type,
                                !.class = camera_class]
       ELSE /\ registry' = registry
            /\ last_call' = [NoRegistryCall EXCEPT !.op = "register",
                                !.camera_type = camera_type,
                                !.class = camera_class, !.raised = TRUE,
                                !.error = Error("ValueError",
                                                "must inherit from CameraInterface")]
    /\ UNCHANGED <<rpc, cameras_config, build_i, built, build_error, workers>>
    /\ UNCHANGED <<dvars, avars, hvars, fvars>>

\* CameraRegistry.unregister(camera_type)
Unregister(camera_type) ==
    /\ rpc = "ready"
    /\ registry' = unregister(registry, camera_type)
    /\ last_call' = [NoRegistryCall EXCEPT !.op = "unregister",
                        !.camera_type = camera_type,
                        !.returned = IF camera_type \in DOMAIN registry
                                     THEN "True" ELSE "False"]
    /\ UNCHANGED <<rpc, cameras_config, build_i, built, build_error, workers>>
    /\ UNCHANGED <<dvars, avars, hvars, fvars>>

\* CameraRegistry.clear_registry()
ClearRegistry ==
    /\ rpc = "ready"
    /\ registry' = unregister(unregister(registry, "mock"), "ip_camera")
    /\ last_call' = [NoRegistryCall EXCEPT !.op = "clear_registry"]
    /\ UNCHANGED <<rpc, cameras_config, build_i, built, build_error, workers>>
    /\ UNCHANGED <<dvars, avars, hvars, fvars>>

\* The record of one create_camera() call.
CreateCall(camera_type, camera_id, config) ==
    LET made == create_camera(registry, camera_type, camera_id, config)
    IN [op |-> "create_camera", camera_type |-> camera_type,
        camera_id |-> camera_id, config |-> config,
        class |-> IF camera_type \in DOMAIN registry
                  THEN registry[camera_type] ELSE "none",
        raised |-> made.raised, error |-> made.error, handle |-> made.handle,
        returned |-> "none"]

\* CameraRegistry.create_camera(camera_type, camera_id, config), called directly
CreateCamera(camera_type, camera_id, config) ==
    /\ rpc = "ready"
    /\ last_call' = CreateCall(camera_type, camera_id, config)
    /\ UNCHANGED <<registry, rpc, cameras_config, build_i, built, build_error,
                   workers>>
    /\ UNCHANGED <<dvars, avars, hvars, fvars>>

\* create_cameras_from_config(cameras_config): cameras = []
StartBuild(list) ==
    /\ rpc = "ready"
    /\ rpc' = "building"
    /\ cameras_config' = list
    /\ build_i' = 0
    /\ built' = <<>>
    /\ last_call' = [NoRegistryCall EXCEPT !.op = "create_cameras_from_config"]
    /\ UNCHANGED <<registry, build_error, workers>>
    /\ UNCHANGED <<dvars, avars, hvars, fvars>>

\* One iteration of the for loop: the entry's id and type, the create_camera()
\* call in the try block and the except clause.
BuildEntry ==
    /\ rpc = "building"
    /\ build_i < Len(cameras_config)
    /\ LET cam_config == cameras_config[build_i + 1]
           camera_id == Get(cam_config.id, build_i)
           camera_type == Get(cam_config.type, "ip_camera")
           call == CreateCall(camera_type, camera_id, cam_config)
       IN /\ last_call' = call
          /\ built' = IF call.raised THEN built ELSE Append(built, call.handle)
          /\ IF call.raised /\ ~BuilderCatches(call.error)
             THEN rpc' = "raised" /\ build_error' = call.error
             ELSE rpc' = rpc /\ build_error' = build_error
    /\ build_i' = build_i + 1
    /\ UNCHANGED <<registry, cameras_config, workers>>
    /\ UNCHANGED <<dvars, avars, hvars, fvars>>

\* return cameras
BuildReturn ==
    /\ rpc = "building"
    /\ build_i = Len(cameras_config)
    /\ rpc' = "returned"
    /\ UNCHANGED <<registry, cameras_config, build_i, built, build_error, last_call,
                   workers>>
    /\ UNCHANGED <<dvars, avars, hvars, fvars>>

RegistryNext ==
    \/ \E k \in KindNames, c \in Classes \cup {"object"} : Register(k, c)
    \/ \E k \in CameraKinds : Unregister(k)
    \/ ClearRegistry
    \/ \E k \in CameraKinds, id \in CameraIds, c \in Configs : CreateCamera(k, id, c)
    \/ \E list \in ConfigLists(MaxConfigs) : StartBuild(list)
    \/ BuildEntry
    \/ BuildReturn

SpecRegistry == RegistryInit /\ [][RegistryNext]_vars

(***************************************************************************)
(* Plugin discovery: threads that each register a kind of their own and    *)
(* then create a camera of it (CameraRegistry.register, create_camera).    *)
(***************************************************************************)
MaxWorkers == 3

\* camera_type = f"thread_camera_{thread_id}"
ThreadKinds ==
    <<"thread_camera_0", "thread_camera_1", "thread_camera_2", "thread_camera_3",
      "thread_camera_4">>

NewWorker(t) ==
    [pc |-> "register", camera_type |-> ThreadKinds[t], camera_id |-> t - 1,
     seen |-> <<>>, class |-> "none", raised |-> FALSE, error |-> NoError,
     handle |-> NoHandle]

\* The thread writes back the dictionary it read, with its own key added.
StoreIntoCopy(current, seen, camera_type, camera_class) ==
    register(seen, camera_type, camera_class)

\* cls._cameras[camera_type] = camera_class: the key is set in the shared
\* dictionary, in place
StoreInto(current, seen, camera_type, camera_class) ==
    register(current, camera_type, camera_class)

DiscoveryInit ==
    /\ registry \in {unregister(unregister(ImportedRegistry, "mock"), "ip_camera"),
                     ImportedRegistry}
    /\ workers = [t \in 1..MaxWorkers |-> NewWorker(t)]
    /\ rpc = "idle"
    /\ cameras_config = <<>>
    /\ build_i = 0
    /\ built = <<>>
    /\ build_error = NoError
    /\ last_call = NoRegistryCall
    /\ DispatchIdle
    /\ AuthIdle
    /\ HandleIdle
    /\ FramesIdle

\* register(): the issubclass test and `if camera_type in cls._cameras`
WorkerRegisterCheck(t) ==
    /\ workers[t].pc = "register"
    /\ issubclass("MockCamera")
    /\ workers' = [workers EXCEPT ![t].pc = "store", ![t].seen = registry]
    /\ UNCHANGED <<registry, rpc, cameras_config, build_i, built, build_error,
                   last_call>>
    /\ UNCHANGED <<dvars, avars, hvars, fvars>>

\* register(): the assignment
WorkerRegisterStore(t) ==
    /\ workers[t].pc = "store"
    /\ registry' = StoreInto(registry, workers[t].seen, workers[t].camera_type,
                             "MockCamera")
    /\ workers' = [workers EXCEPT ![t].pc = "create"]
    /\ UNCHANGED <<rpc, cameras_config, build_i, built, build_error, last_call>>
    /\ UNCHANGED <<dvars, avars, hvars, fvars>>

\* create_camera(): `if camera_type not in cls._cameras: raise ValueError`, else
\* the class is looked up
WorkerCreateLookup(t) ==
    /\ workers[t].pc = "create"
    /\ IF workers[t].camera_type \notin DOMAIN registry
       THEN workers' = [workers EXCEPT ![t].pc = "done", ![t].raised = TRUE,
                           ![t].error = UnknownType(workers[t].camera_type).error]
       ELSE workers' = [workers EXCEPT ![t].pc = "construct",
                           ![t].class = registry[workers[t].camera_type]]
    /\ UNCHANGED <<registry, rpc, cameras_config, build_i, built, build_error,
                   last_call>>
    /\ UNCHANGED <<dvars, avars, hvars, fvars>>

\* create_camera(): camera_class(camera_id, config) with config {'thread_id': id}
WorkerCreateConstruct(t) ==
    /\ workers[t].pc = "construct"
    /\ LET made == Instantiate(workers[t].class, workers[t].camera_id, NoConfig)
       IN workers' = [workers EXCEPT ![t].pc = "done", ![t].raised = made.raised,
                          ![t].error = made.error, ![t].handle = made.handle]
    /\ UNCHANGED <<registry, rpc, cameras_config, build_i, built, build_error,
                   last_call>>
    /\ UNCHANGED <<dvars, avars, hvars, fvars>>

DiscoveryNext ==
    \/ \E t \in DOMAIN workers : WorkerRegisterCheck(t)
    \/ \E t \in DOMAIN workers : WorkerRegisterStore(t)
    \/ \E t \in DOMAIN workers : WorkerCreateLookup(t)
    \/ \E t \in DOMAIN workers : WorkerCreateConstruct(t)

SpecDiscovery == DiscoveryInit /\ [][DiscoveryNext]_vars

(***************************************************************************)
(* One MockCamera or IPCamera handle: capture_frames(), stop() and the     *)
(* capture threads (src/src/cameras, src/camera.py).  The frame counter    *)
(* and the pixels of a frame are not modelled, only its shape.             *)
(***************************************************************************)
MaxThreads == 2

\* The handles the constructors build from the configurations they accept.
HandleConfigs ==
    {GeneratedConfig, DefaultsConfig, VideoConfig, IPConfig, IPUnreachableConfig}

InitialHandles ==
    {Construct(ImportedRegistry[Get(c.type, "ip_camera")], Get(c.id, 0), c).handle :
        c \in HandleConfigs}

\* get_frame(): the frame slot (of the wrapped Camera for an IPCamera)
get_frame(h) == IF h.class = "IPCamera" THEN h.camera.frame ELSE h.frame

\* is_connected() that answers with the running flag.
is_connectedWhileRunning(h) == h.running

\* IPCamera.is_connected(): the wrapped camera holds a token;
\* MockCamera.is_connected(): for a video (or webcam) source self._cap is there
\* and opened, for images the list of paths is not empty (a test image is made
\* when there is none), for a generated source True.
is_connected(h) ==
    IF h.class = "IPCamera"
    THEN h.camera.exists /\ h.camera.token # NoValue
    ELSE CASE h.source \in {"video", "webcam"} -> h.cap_open
           [] h.source = "images" -> TRUE
           [] h.source = "generated" -> TRUE
           [] OTHER -> FALSE

\* What a pull of MockCamera._capture_loop needs to give a frame: nothing for a
\* generated source; for a video source _get_video_frame() returns None at once
\* when self._cap is None or not opened.
CanPull(h) == h.source = "generated" \/ h.cap_open

\* np.full((self.width, self.height, 3), ...)
GeneratedFrameTransposed(h) == Frame(h.width, h.height)

\* MockCamera._get_generated_frame(): np.full((self.height, self.width, 3), ...)
GeneratedFrame(h) == Frame(h.height, h.width)

\* A frame of clip.mp4, and a frame of the RTSP stream: the source's own shape.
ClipFrame == Frame(720, 1280)

StreamFrame == Frame(1080, 1920)

\* threading.Thread(target=...).start()
NewThread(class) ==
    [st |-> "alive", pc |-> "test", wrote |-> FALSE, failed |-> FALSE,
     target |-> IF class = "IPCamera" THEN "Camera.capture_frames"
                ELSE "_capture_loop"]

\* The thread whose target has returned; what its loop did is kept for live
\* loops only.
Exited(thread) ==
    [thread EXCEPT !.st = "exited", !.pc = "test", !.wrote = FALSE,
                   !.failed = FALSE]

\* capture_frames() without its check.
AlreadyCapturingNever(h) == FALSE

\* if self.running: warning, return
AlreadyCapturing(h) == h.running

\* stop() of the wrapper flips the wrapped camera's flag only.
StopSignalCameraOnly(h) == [h EXCEPT !.camera.running = FALSE]

\* stop(): self.running = False (and self._camera.stop() for an IPCamera)
StopSignal(h) == [h EXCEPT !.running = FALSE, !.camera.running = FALSE]

\* A caller thread that makes calls: the first, and the second where there is one.
Active(c) == c = 1 \/ concurrent

Ready(c) == Active(c) /\ calls[c].pc \in {"none", "returned"}

Call(c, op, pc, result) ==
    [calls EXCEPT ![c] = [op |-> op, pc |-> pc, result |-> result,
                          before |-> calls[c].op]]

CameraInit ==
    /\ handle \in InitialHandles
    /\ threads = <<>>
    /\ calls = [c \in Callers |-> NoCall]
    /\ concurrent \in BOOLEAN
    /\ ptz_result = NoPtz
    /\ DispatchIdle
    /\ AuthIdle
    /\ RegistryIdle
    /\ FramesIdle

\* capture_frames(), up to and including the check of self.running.
CaptureFramesCall(c) ==
    /\ Ready(c)
    /\ Len(threads) + Cardinality({d \in Callers : calls[d].pc = "start"}) < MaxThreads
    /\ IF AlreadyCapturing(handle)
       THEN calls' = Call(c, "capture_frames", "returned", "already_capturing")
       ELSE calls' = Call(c, "capture_frames", "start", "none")
    /\ UNCHANGED <<handle, threads, concurrent, ptz_result>>
    /\ UNCHANGED <<dvars, avars, rvars, fvars>>

\* capture_frames(), after the check: self.running = True, the thread is created,
\* stored in self._capture_thread and started.
CaptureFramesStart(c) ==
    /\ Active(c)
    /\ calls[c].pc = "start"
    /\ handle' = [handle EXCEPT !.running = TRUE]
    /\ threads' = Append([i \in DOMAIN threads |-> [threads[i] EXCEPT !.wrote = FALSE]],
                         NewThread(handle.class))
    /\ calls' = [calls EXCEPT ![c].pc = "returned", ![c].result = "started"]
    /\ UNCHANGED <<concurrent, ptz_result>>
    /\ UNCHANGED <<dvars, avars, rvars, fvars>>

\* stop(), up to the join: the check of self.running and the flag.
StopCall(c) ==
    /\ Ready(c)
    /\ IF ~handle.running
       THEN /\ calls' = Call(c, "stop", "returned", "not_running")
            /\ handle' = handle
       ELSE /\ calls' = Call(c, "stop", "join", "none")
            /\ handle' = StopSignal(handle)
    /\ UNCHANGED <<threads, concurrent, ptz_result>>
    /\ UNCHANGED <<dvars, avars, rvars, fvars>>

\* stop() after the join: MockCamera releases self._cap and drops it; the
\* IPCamera wrapper releases nothing (Camera.capture_frames does, on its way
\* out).
ReleaseNever(h) == h

ReleaseSource(h) ==
    IF h.class = "MockCamera" THEN [h EXCEPT !.cap_open = FALSE] ELSE h

\* join() that waits for the thread however long it takes.
JoinGivesUpNever(thread) == FALSE

\* join(timeout=2.0), join(timeout=5.0): the wait ends with the thread alive.
JoinGivesUp(thread) == thread.st = "alive"

\* stop(): the thread was joined (or there is none), then the release.
StopJoined(c) ==
    /\ Active(c)
    /\ calls[c].pc = "join"
    /\ threads = <<>> \/ threads[Len(threads)].st = "exited"
    /\ calls' = [calls EXCEPT ![c].pc = "returned", ![c].result = "joined"]
    /\ handle' = ReleaseSource(handle)
    /\ UNCHANGED <<threads, concurrent, ptz_result>>
    /\ UNCHANGED <<dvars, avars, rvars, fvars>>

\* stop(): join(timeout=...) gives up with the thread still alive (asleep
\* between two frames, or inside a read); stop() goes on to the release and
\* returns all the same.
StopJoinTimeout(c) ==
    /\ Active(c)
    /\ calls[c].pc = "join"
    /\ threads # <<>> /\ JoinGivesUp(threads[Len(threads)])
    /\ calls' = [calls EXCEPT ![c].pc = "returned", ![c].result = "timed_out"]
    /\ handle' = ReleaseSource(handle)
    /\ UNCHANGED <<threads, concurrent, ptz_result>>
    /\ UNCHANGED <<dvars, avars, rvars, fvars>>

\* MockCamera._capture_loop: while self.running
MockLoopTest(i) ==
    /\ threads[i].st = "alive"
    /\ threads[i].pc = "test"
    /\ threads[i].target = "_capture_loop"
    /\ threads' = IF handle.running
                  THEN [threads EXCEPT ![i].pc = "pull"]
                  ELSE [threads EXCEPT ![i] = Exited(@)]
    /\ UNCHANGED <<handle, calls, concurrent, ptz_result>>
    /\ UNCHANGED <<dvars, avars, rvars, fvars>>

\* MockCamera._capture_loop: self.frame = self._get_..._frame() and the sleep.
\* A generated frame is always there; _get_video_frame() gives None with no
\* open capture or when the read fails, None goes into the slot like a frame,
\* and the loop goes back to its test.
MockLoopPull(i, ret) ==
    /\ threads[i].st = "alive"
    /\ threads[i].pc = "pull"
    /\ threads[i].target = "_capture_loop"
    /\ IF handle.source = "generated" THEN ret ELSE ret => handle.cap_open
    /\ handle' = [handle EXCEPT !.frame =
                     IF ~ret THEN NoFrame
                     ELSE IF handle.source = "generated"
                          THEN GeneratedFrame(handle) ELSE ClipFrame]
    /\ threads' = [threads EXCEPT
                      ![i].pc = "test",
                      ![i].wrote = TRUE,
                      ![i].failed = @ \/ ~ret]
    /\ UNCHANGED <<calls, concurrent, ptz_result>>
    /\ UNCHANGED <<dvars, avars, rvars, fvars>>

\* Camera.capture_frames: while self.running, and after the loop
\* self.cap.release()
CameraLoopTest(i) ==
    /\ threads[i].st = "alive"
    /\ threads[i].pc = "test"
    /\ threads[i].target = "Camera.capture_frames"
    /\ IF handle.camera.running
       THEN /\ threads' = [threads EXCEPT ![i].pc = "pull"]
            /\ handle' = handle
       ELSE /\ threads' = [threads EXCEPT ![i] = Exited(@)]
            /\ handle' = [handle EXCEPT !.camera.cap_open = FALSE]
    /\ UNCHANGED <<calls, concurrent, ptz_result>>
    /\ UNCHANGED <<dvars, avars, rvars, fvars>>

\* Camera.capture_frames: ret, self.frame = self.cap.read(); a failed read
\* stores None and breaks out of the loop, and the capture is released.
CameraLoopPull(i, ret) ==
    /\ threads[i].st = "alive"
    /\ threads[i].pc = "pull"
    /\ threads[i].target = "Camera.capture_frames"
    /\ ret => handle.camera.cap_open
    /\ handle' = IF ret
                 THEN [handle EXCEPT !.camera.frame = StreamFrame]
                 ELSE [handle EXCEPT !.camera.frame = NoFrame,
                                     !.camera.cap_open = FALSE]
    /\ threads' = IF ret
                  THEN [threads EXCEPT ![i].pc = "test", ![i].wrote = TRUE]
                  ELSE [threads EXCEPT ![i] = Exited(@)]
    /\ UNCHANGED <<calls, concurrent, ptz_result>>
    /\ UNCHANGED <<dvars, avars, rvars, fvars>>

LoopStep(i) ==
    \/ MockLoopTest(i)
    \/ CameraLoopTest(i)
    \/ \E ret \in BOOLEAN : MockLoopPull(i, ret) \/ CameraLoopPull(i, ret)

CameraNext ==
    \/ \E c \in Callers : CaptureFramesCall(c)
    \/ \E c \in Callers : CaptureFramesStart(c)
    \/ \E c \in Callers : StopCall(c)
    \/ \E c \in Callers : StopJoined(c)
    \/ \E c \in Callers : StopJoinTimeout(c)
    \/ \E i \in DOMAIN threads : MockLoopTest(i)
    \/ \E i \in DOMAIN threads, ret \in BOOLEAN : MockLoopPull(i, ret)
    \/ \E i \in DOMAIN threads : CameraLoopTest(i)
    \/ \E i \in DOMAIN threads, ret \in BOOLEAN : CameraLoopPull(i, ret)

SpecCamera == CameraInit /\ [][CameraNext]_vars

\* A thread that called stop() goes on running: its join() ends, with the
\* capture thread gone or with the timeout.  Nothing is assumed of the
\* capture threads, a read may block for ever.
SpecCameraStop ==
    SpecCamera /\ \A c \in Callers : WF_vars(StopJoined(c) \/ StopJoinTimeout(c))

\* The scheduler runs every live capture thread again and again.
SpecCameraFair ==
    SpecCamera /\ \A i \in 1..MaxThreads : WF_vars(i \in DOMAIN threads /\ LoopStep(i))

(***************************************************************************)
(* send_ptz_command() on one handle (src/camera.py and the plugins).       *)
(***************************************************************************)
\* The parameters Camera.send_ptz_command builds a payload for.
MoveParameters ==
    {"Left", "Right", "Up", "Down", "ZoomInc", "ZoomDec", "LeftUp", "LeftDown",
     "RightUp", "RightDown"}

PayloadParameters == MoveParameters \cup {"ToPos", "Stop"}

\* The arguments the callers pass, and what the camera's HTTP endpoint does with
\* a POST: status 200, status 500, or no answer within the timeout.
PtzCommands == {"PtzCtrl", "GetPtzPreset"}

PtzParameters == {"Left", "ZoomInc", "ToPos", "Stop", "Diagonal", "left"}

PtzIds == {0, 3}

PostAnswers == {"200", "500", "timeout"}

\* Camera.send_ptz_command(command, parameter, id): the requests it makes and
\* the exception that leaves it, if any; it returns None on every path.
CameraSendPtz(camera, command, parameter, id, post) ==
    IF command = "PtzCtrl" /\ parameter \in PayloadParameters
    THEN CASE camera.token = NoValue ->
                \* self.session is None: None has no post
                [device_calls |-> 0, raised |-> TRUE,
                 error |-> Error("AttributeError", "post")]
           [] post = "timeout" ->
                [device_calls |-> 1, raised |-> TRUE,
                 error |-> Error("RequestException", "timeout")]
           [] OTHER -> [device_calls |-> 1, raised |-> FALSE, error |-> NoError]
    ELSE [device_calls |-> 0, raised |-> FALSE, error |-> NoError]

\* send_ptz_command() of the handle: IPCamera wraps the call above in
\* try / return True / except Exception / return False, MockCamera logs and
\* returns True.
SendPtzCommand(h, command, parameter, id, post) ==
    IF h.class = "IPCamera"
    THEN LET sent == CameraSendPtz(h.camera, command, parameter, id, post)
         IN [command |-> command, parameter |-> parameter, id |-> id,
             device_calls |-> sent.device_calls, raised |-> FALSE,
             returned |-> IF sent.raised THEN "False" ELSE "True"]
    ELSE [command |-> command, parameter |-> parameter, id |-> id,
          device_calls |-> 0, raised |-> FALSE, returned |-> "True"]

PtzInit ==
    /\ handle \in InitialHandles
    /\ threads = <<>>
    /\ calls = [c \in Callers |-> NoCall]
    /\ concurrent = FALSE
    /\ ptz_result = NoPtz
    /\ DispatchIdle
    /\ AuthIdle
    /\ RegistryIdle
    /\ FramesIdle

PtzCall(command, parameter, id, post) ==
    /\ ptz_result' = SendPtzCommand(handle, command, parameter, id, post)
    /\ UNCHANGED <<handle, threads, calls, concurrent>>
    /\ UNCHANGED <<dvars, avars, rvars, fvars>>

PtzNext ==
    \E command \in PtzCommands, parameter \in PtzParameters, id \in PtzIds,
       post \in PostAnswers : PtzCall(command, parameter, id, post)

SpecPtz == PtzInit /\ [][PtzNext]_vars

(***************************************************************************)
(* Properties of the walker, the dispatcher and the move queue (Spec).     *)
(***************************************************************************)
MoveCalls == LET IsMove(e) == e.call = "move" IN SelectSeq(ptz_log, IsMove)

LiveDrains == {i \in DOMAIN drain_tasks : Live(drain_tasks[i])}

\* C1: the drain issues the move commands in the order the moves were enqueued
\* (over all dispatches), every move command is directly followed by the Stop of
\* the same move, one move duration later, before any other command, and at most
\* one drain coroutine is alive at any time.
C1_FifoDrain ==
    /\ Len(MoveCalls) <= Len(enq_log)
    /\ \A i \in DOMAIN MoveCalls : MoveCalls[i].task = enq_log[i]
    /\ \A i \in DOMAIN ptz_log :
          IF i % 2 = 1
          THEN /\ ptz_log[i].call = "move"
               /\ ptz_log[i].parameter = ptz_log[i].task.type
          ELSE /\ ptz_log[i].call = "stop"
               /\ ptz_log[i].parameter = "Stop"
               /\ ptz_log[i].task = ptz_log[i - 1].task
               /\ ptz_log[i].at = ptz_log[i - 1].at + ptz_log[i].task.duration
    /\ \A i \in DOMAIN ptz_log : \A j \in DOMAIN ptz_log :
          i < j => ptz_log[i].at <= ptz_log[j].at
    /\ Cardinality(LiveDrains) <= 1

\* Three moves Left, Right, Up were enqueued and each was issued and stopped.
C1_Witness ==
    /\ Len(ptz_log) >= 6
    /\ ptz_log[1].parameter = "Left"
    /\ ptz_log[3].parameter = "Right"
    /\ ptz_log[5].parameter = "Up"
    /\ ptz_log[6].parameter = "Stop"

BothMedia == audio_task.kind # "none" /\ video_task.kind # "none"

\* C2: with an audio and a video task, both start at the time of the dispatch,
\* the mode phase is entered only when both have finished, and the media phase
\* lasts the longer of the two running times, not their sum: 5 for an audio of
\* 2 beside a video of 5 whose file has frames for its whole duration.
C2_ConcurrentMedia ==
    BothMedia =>
        /\ \A t \in {audio_task, video_task} :
              /\ t.st \in {"sleeping", "done"} => t.t0 = t_dispatch
              /\ (clock > t_dispatch /\ wpc = "dispatching") => t.st # "ready"
        /\ dpc \in {"SequentialModes", "Done"} =>
              /\ audio_task.st = "done"
              /\ video_task.st = "done"
              /\ t_media - t_dispatch =
                    Max(audio_task.action.duration,
                        Min(video_task.action.duration,
                            VideoFrames(video_task.action.file)))
              /\ (/\ audio_task.action.duration = 2
                  /\ video_task.action.duration = 5
                  /\ VideoFrames(video_task.action.file) >= 5)
                    => t_media - t_dispatch = 5
        /\ display_task.st # "none" =>
              audio_task.st = "done" /\ video_task.st = "done"

\* The audio of 2 and the video of 5 both played and the dispatcher is Done.
C2_Witness ==
    /\ BothMedia
    /\ dpc = "Done"
    /\ audio_task.action.duration = 2
    /\ video_task.action.duration = 5
    /\ t_media - t_dispatch = 5

\* C3: the display loop and the drain of a mode run side by side and the
\* dispatcher goes on only when both have finished: a finished mode lasted the
\* longer of its duration and the durations of the queued moves, no display or
\* drain is left when the dispatcher goes on, and at Done every command issued
\* before the end of its mode was issued while the display loop was running.
\* With one mode of 10 and one Left move of 2 the mode lasts 10.
C3_ModeWithDrain ==
    /\ \A i \in DOMAIN mode_log :
          /\ mode_log[i].end - mode_log[i].start =
                Max(mode_log[i].duration, mode_log[i].qsum)
          /\ (mode_log[i].duration = 10 /\ mode_log[i].qsum = 2)
                => mode_log[i].end - mode_log[i].start = 10
    /\ display_task.st = "none" => LiveDrains = {}
    /\ dpc \in {"Done", "Idle"} => display_task.st = "none" /\ LiveDrains = {}
    /\ dpc = "Done" =>
          \A i \in DOMAIN ptz_log :
              ptz_log[i].at < ptz_log[i].mode_end
                  => ptz_log[i].display \in {"ready", "sleeping"}

\* The fixture event is Done: Left and its Stop were issued while the display
\* loop ran, and the mode took 10.
C3_Witness ==
    /\ dpc = "Done"
    /\ Len(mode_log) = 1
    /\ mode_log[1].duration = 10
    /\ mode_log[1].end - mode_log[1].start = 10
    /\ Len(ptz_log) = 2
    /\ ptz_log[1].parameter = "Left"
    /\ ptz_log[2].parameter = "Stop"
    /\ ptz_log[2].at - ptz_log[1].at = 2
    /\ ptz_log[2].display = "sleeping"

\* C4: the dispatcher always reaches Done: no failure of a single action leaves
\* action_dispatcher as an exception.
C4_DispatcherReachesDone == dpc # "Raised"

Examined(k) ==
    \/ k < cursor
    \/ k = cursor /\ wpc \in {"dispatching", "crashed"}

TimesDispatched(name) ==
    Cardinality({i \in DOMAIN dispatch_log : dispatch_log[i] = name})

\* C5: in every pass, every event the walker has examined was dispatched once if
\* start <= time_now < end and not at all otherwise, and no other event was
\* dispatched; a pass that is over has examined every event.
C5_WindowDispatch ==
    /\ \A k \in DOMAIN ScanOrder(schedule) :
          LET event == ScanOrder(schedule)[k]
          IN TimesDispatched(event.name) =
                IF /\ Examined(k)
                   /\ event.start_time <= time_now
                   /\ time_now < event.end_time
                THEN 1 ELSE 0
    /\ (wpc \in {"loop", "exited"} /\ passes > 0)
          => cursor = Len(ScanOrder(schedule)) + 1

\* One pass met an event whose end is time_now (not dispatched) and then an event
\* whose start is time_now (dispatched).
C5_Witness ==
    /\ wpc = "dispatching"
    /\ cursor = 2
    /\ ScanOrder(schedule)[1].end_time = time_now
    /\ ScanOrder(schedule)[2].start_time = time_now
    /\ dispatch_log = <<ScanOrder(schedule)[2].name>>

\* Event a is declared before event b in the schedule.
DeclaredBefore(a, b) ==
    \E p1 \in DOMAIN schedule : \E p2 \in DOMAIN schedule :
    \E e1 \in DOMAIN schedule[p1].events : \E e2 \in DOMAIN schedule[p2].events :
        /\ schedule[p1].events[e1].name = a
        /\ schedule[p2].events[e2].name = b
        /\ p1 < p2 \/ (p1 = p2 /\ e1 < e2)

\* C6: within a pass the events are dispatched in declaration order, and while
\* the walker examines events no dispatcher is at work: the previous one is
\* Done, with its awaited tasks, its display loop and its drain finished.
C6_DeclarationOrder ==
    /\ \A i \in DOMAIN dispatch_log : \A j \in DOMAIN dispatch_log :
          i < j => DeclaredBefore(dispatch_log[i], dispatch_log[j])
    /\ wpc \in {"scan", "loop"} =>
          /\ dpc = "Idle"
          /\ ~Live(audio_task)
          /\ ~Live(video_task)
          /\ display_task.st = "none"
          /\ LiveDrains = {}
    /\ wpc = "dispatching" => dpc # "Idle"

\* Two events of two programmes, both containing time_now, dispatched in one pass.
C6_Witness ==
    /\ Len(dispatch_log) = 2
    /\ dispatch_log[1] = "Moves"
    /\ dispatch_log[2] = "TwoModes"
    /\ dpc = "Done"

\* C7: the walker ends only with a debug time, after exactly one whole pass;
\* without a debug time it never ends.
C7_WalkerTermination ==
    wpc \in {"exited", "crashed"} =>
        /\ debug_time # <<>>
        /\ passes = 1
        /\ cursor = Len(ScanOrder(schedule)) + 1

(***************************************************************************)
(* Properties of get_token() (SpecAuth).                                   *)
(***************************************************************************)
AuthEnded == auth_pc \in {"returned", "raised"}

\* C8: when every login attempt fails, get_token makes exactly `retries`
\* attempts, sleeps `delay` between consecutive attempts, and returns
\* (None, None).
C8_ExhaustedRetries ==
    (AuthEnded /\ \A k \in 1..retries : endpoint[k] # "ok") =>
        /\ auth_pc = "returned"
        /\ auth_result = [token |-> NoValue, session |-> NoValue]
        /\ Len(auth_log) = retries
        /\ \A i \in 2..Len(auth_log) :
              auth_log[i].at - auth_log[i - 1].at = delay

\* C9: when the endpoint fails on attempts 1..K-1 and succeeds on attempt
\* K <= retries, get_token returns the token and the session of attempt K and
\* makes no further attempt.
C9_SuccessOnAttemptK ==
    \A K \in 1..retries :
        (/\ AuthEnded
         /\ endpoint[K] = "ok"
         /\ \A k \in 1..(K - 1) : endpoint[k] # "ok") =>
            /\ auth_pc = "returned"
            /\ auth_result = [token |-> <<K>>, session |-> <<K>>]
            /\ Len(auth_log) = K

\* C10: get_token never raises to its caller.
C10_NeverRaises == auth_pc # "raised"

(***************************************************************************)
(* Properties of the registry and the roster builder (SpecRegistry).       *)
(***************************************************************************)
\* What the constructor of the class the last create_camera() call looked up
\* makes of the call's arguments.
Constructed == Construct(last_call.class, last_call.camera_id, last_call.config)

\* C11: in every registry state, create_camera(kind, id, config) for a registered
\* kind and a config the registered class's constructor accepts returns an
\* instance of that class whose camera_id is id and whose config is config.
C11_CreateReturnsInstance ==
    (/\ last_call.op = "create_camera"
     /\ last_call.class # "none"
     /\ ~Constructed.raised)
    => /\ ~last_call.raised
       /\ last_call.handle.class = last_call.class
       /\ last_call.handle.camera_id = last_call.camera_id
       /\ last_call.handle.config = last_call.config

\* A kind re-registered to another class yields an instance of that class.
C11_Witness ==
    /\ last_call.op = "create_camera"
    /\ last_call.camera_type = "ip_camera"
    /\ last_call.class = "MockCamera"
    /\ last_call.camera_id = 7
    /\ ~last_call.raised
    /\ last_call.handle.class = "MockCamera"
    /\ last_call.handle.camera_id = 7

\* C12: create_camera with a kind that is not registered raises the
\* unknown-type ValueError in every registry state, the empty one included,
\* returns no handle and leaves the registry as it was.
C12_UnknownKindFails ==
    [][(/\ last_call'.op = "create_camera"
        /\ last_call'.camera_type \notin DOMAIN registry)
       => /\ last_call'.raised
          /\ last_call'.error = Error("ValueError", "Unknown camera type")
          /\ last_call'.handle = NoHandle
          /\ registry' = registry]_vars

\* The call on the cleared registry, with a kind the imports had registered.
C12_Witness ==
    /\ last_call.op = "create_camera"
    /\ last_call.camera_type = "mock"
    /\ DOMAIN registry = {}
    /\ last_call.raised
    /\ last_call.error.message = "Unknown camera type"

\* C13: when the constructor of the registered class raises, create_camera
\* raises that same error and returns no handle.
C13_ConstructorErrorPropagates ==
    (/\ last_call.op = "create_camera"
     /\ last_call.class # "none"
     /\ Constructed.raised)
    => /\ last_call.raised
       /\ last_call.error = Constructed.error
       /\ last_call.handle = NoHandle

\* The KeyError of the login, out of IPCamera.__init__, reaches the caller.
C13_Witness ==
    /\ last_call.op = "create_camera"
    /\ last_call.class = "IPCamera"
    /\ last_call.config = IPBadLoginConfig
    /\ last_call.raised
    /\ last_call.error.type = "KeyError"

\* The handles create_camera() builds for the entries of list from the i-th on,
\* entry by entry, leaving out the entries for which it raises.
RECURSIVE BuiltFrom(_, _, _)
BuiltFrom(list, i, reg) ==
    IF i > Len(list)
    THEN <<>>
    ELSE LET made == create_camera(reg, Get(list[i].type, "ip_camera"),
                                   Get(list[i].id, i - 1), list[i])
         IN (IF made.raised THEN <<>> ELSE <<made.handle>>)
            \o BuiltFrom(list, i + 1, reg)

\* C14: create_cameras_from_config never raises, and the roster it returns holds
\* exactly the handles of the entries whose construction succeeded, in
\* configuration order: a failing entry is left out and the entries after it are
\* still built.
C14_BestEffortRoster ==
    /\ rpc # "raised"
    /\ rpc = "returned" => built = BuiltFrom(cameras_config, 1, registry)

\* The first entry fails inside the login, the second one is built.
C14_Witness ==
    /\ rpc = "returned"
    /\ cameras_config = <<IPBadLoginConfig, GeneratedConfig>>
    /\ Len(built) = 1
    /\ built[1].config = GeneratedConfig
    /\ built[1].class = "MockCamera"

(***************************************************************************)
(* Properties of one camera handle (SpecCamera, SpecCameraFair).           *)
(***************************************************************************)
Generated == handle.class = "MockCamera" /\ handle.source = "generated"

\* The capture loops that are alive and have stored a frame since the handle
\* was last started.
Writers == {i \in DOMAIN threads : threads[i].st = "alive" /\ threads[i].wrote}

\* C15: on a MockCamera with a generated source, once capture_frames() has set
\* it running get_frame() eventually returns a frame (unless the camera is
\* stopped first); every frame it returns has the configured height and width
\* (480 and 640 where the configuration names none), and once it returns a
\* frame it goes on returning one.
C15_GeneratedFrames ==
    /\ [](Generated /\ get_frame(handle).present
            => /\ get_frame(handle).height = Get(handle.config.height, DefaultHeight)
               /\ get_frame(handle).width = Get(handle.config.width, DefaultWidth))
    /\ [][Generated /\ get_frame(handle).present => get_frame(handle).present']_vars
    /\ (Generated /\ handle.running)
          ~> (get_frame(handle).present \/ ~handle.running)

\* The camera built from the 320x240 configuration runs and returns 240x320.
C15_Witness ==
    /\ Generated
    /\ handle.config = GeneratedConfig
    /\ handle.running
    /\ Writers # {}
    /\ get_frame(handle) = Frame(240, 320)

\* C16: with one thread calling the handle, stop() returns without an error and
\* leaves running false, whether the handle was started or not; a stop() on a
\* handle that is not running (the second of two in a row) changes no state.
C16_StopIdempotent ==
    /\ [](~concurrent /\ calls[1].op = "stop" /\ calls[1].pc = "returned"
            => ~handle.running /\ calls[1].result # "raised")
    /\ [][\A c \in Callers :
             (/\ calls[c].pc \in {"none", "returned"}
              /\ calls'[c] # calls[c]
              /\ calls'[c].op = "stop"
              /\ ~handle.running)
             => /\ calls'[c].pc = "returned"
                /\ calls'[c].result # "raised"
                /\ handle' = handle
                /\ threads' = threads]_vars

\* Started, stopped, and stopped again.
C16_Witness ==
    /\ ~concurrent
    /\ threads # <<>>
    /\ calls[1].op = "stop"
    /\ calls[1].before = "stop"
    /\ calls[1].pc = "returned"
    /\ calls[1].result = "not_running"
    /\ ~handle.running

\* C17: capture_frames() on a handle whose running flag is true returns at once
\* without an error: it changes neither the handle nor the set of threads.
C17_StartIdempotent ==
    [][\A c \in Callers :
          (/\ calls[c].pc \in {"none", "returned"}
           /\ calls'[c] # calls[c]
           /\ calls'[c].op = "capture_frames"
           /\ handle.running)
          => /\ calls'[c].pc = "returned"
             /\ calls'[c].result = "already_capturing"
             /\ handle' = handle
             /\ threads' = threads]_vars

\* The second capture_frames() of a caller, with the first one's thread alive.
C17_Witness ==
    /\ calls[1].op = "capture_frames"
    /\ calls[1].before = "capture_frames"
    /\ calls[1].result = "already_capturing"
    /\ handle.running
    /\ Len(threads) = 1
    /\ threads[1].st = "alive"

\* C18: at most one acquisition loop writes the handle's frame slot at any time,
\* whatever capture_frames() and stop() calls are made, by one thread or two.
C18_SingleWriter == Cardinality(Writers) <= 1

(***************************************************************************)
(* Properties of send_ptz_command() (SpecPtz) and of the camera a move is  *)
(* sent to (Spec).                                                         *)
(***************************************************************************)
PtzVocabulary ==
    {"Left", "Right", "Up", "Down", "LeftUp", "LeftDown", "RightUp", "RightDown",
     "ZoomInc", "ZoomDec", "ToPos", "Stop"}

\* C19: send_ptz_command with command PtzCtrl and a parameter outside the
\* allowed vocabulary makes no device call and reports failure to its caller.
C19_InvalidParameterRejected ==
    (ptz_result.command = "PtzCtrl" /\ ptz_result.parameter \notin PtzVocabulary)
    => ptz_result.device_calls = 0 /\ ptz_result.returned = "False"

\* C20: the motion command and the Stop of a camera_move action go only to the
\* roster camera at the action's camera index, and to no camera when the roster
\* has no such index.
C20_MoveGoesToItsCamera ==
    \A i \in DOMAIN ptz_log :
        /\ ptz_log[i].task.camera + 1 \in DOMAIN cameras
        /\ ptz_log[i].camera = cameras[ptz_log[i].task.camera + 1].camera_id

(***************************************************************************)
(* Properties of the mode phase of one dispatch (Spec).                    *)
(***************************************************************************)
\* The video_mode actions of the event being dispatched, as declared.
DeclaredModes == OfKind(ScanOrder(schedule)[cursor].actions, "video_mode")

\* C21: within one event the video_mode actions run one after another in
\* declaration order: the display loop of a mode starts only when the display
\* loop and the drain of the mode before it have finished.
C21_ModesSequential ==
    wpc = "dispatching" =>
       /\ \A i \in DOMAIN mode_log :
             /\ mode_log[i].action = DeclaredModes[i]
             /\ i > 1 => mode_log[i - 1].end <= mode_log[i].start
       /\ display_task.st # "none" =>
             /\ Len(mode_log) < Len(DeclaredModes)
             /\ display_task.action = DeclaredModes[Len(mode_log) + 1]
             /\ mode_log # <<>> => mode_log[Len(mode_log)].end <= display_task.t0
             /\ Cardinality(LiveDrains) <= 1
       /\ display_task.st = "none" => LiveDrains = {}

\* Both modes of the two-mode event have run, the second after the first.
C21_Witness ==
    /\ wpc = "dispatching"
    /\ Len(mode_log) = 2
    /\ mode_log[1].action.mode = "dual_0_1"
    /\ mode_log[2].action.mode = "fullscreen_0"
    /\ mode_log[1].start < mode_log[1].end
    /\ mode_log[1].end <= mode_log[2].start

(***************************************************************************)
(* Properties of concurrent registration (SpecDiscovery).                  *)
(***************************************************************************)
\* C22: threads that each register a kind of their own and then create a camera
\* of it: in every interleaving no call fails, a thread's kind is registered
\* from its register() on, and the handle a thread gets carries the id it
\* passed.
C22_ConcurrentRegistration ==
    \A t \in DOMAIN workers :
        /\ ~workers[t].raised
        /\ workers[t].pc \in {"create", "construct", "done"}
              => workers[t].camera_type \in DOMAIN registry
        /\ workers[t].pc = "done"
              => /\ workers[t].handle.class = "MockCamera"
                 /\ workers[t].handle.camera_id = t - 1

\* All threads are through, after all of them had passed the membership test of
\* register() before any of them stored its kind.
C22_Witness ==
    /\ \A t \in DOMAIN workers :
          /\ workers[t].pc = "done"
          /\ workers[t].seen = <<>>
          /\ workers[t].handle.camera_id = t - 1
    /\ \A t \in DOMAIN workers : ThreadKinds[t] \in DOMAIN registry
(***************************************************************************)
(* The frame slot as an object reference: the arrays a capture loop        *)
(* allocates, fills and stores, and the readers that are handed the        *)
(* reference (mock_camera.py 141-143, 175-267; camera.py 23-24, 80-87).    *)
(***************************************************************************)
MaxFrames == 3

\* The loops: MockCamera._capture_loop on a generated and on a video source,
\* Camera.capture_frames on the stream of an IPCamera.
FrameSources == {"generated", "video", "stream"}

\* get_frame() that waits until a frame is there.
SlotReadableWhenFilled(s) == s # None

\* get_frame(): return self.frame, no lock and no wait
SlotReadable(s) == TRUE

\* A loop that stores the new array first and draws on it afterwards.
StepAfterStoreFirst(source, pc) ==
    CASE pc = "pull" -> "store"
      [] pc = "store" -> IF source = "generated" THEN "draw" ELSE "test"
      [] pc = "draw" -> "test"

\* The order of one pass: the pull (np.full, or cap.read() that gives a decoded
\* array), for a generated frame the cv2.putText of _get_generated_frame(),
\* then the assignment to self.frame, then the test of the flag again.
StepAfter(source, pc) ==
    CASE pc = "pull" -> IF source = "generated" THEN "draw" ELSE "store"
      [] pc = "draw" -> "store"
      [] pc = "store" -> "test"

FramesInit ==
    /\ heap = <<>>
    /\ slot = None
    /\ held = [r \in Readers |-> [called |-> FALSE, ref |-> None]]
    /\ lpc \in {[NoLoop EXCEPT !.source = k] : k \in FrameSources}
    /\ DispatchIdle
    /\ AuthIdle
    /\ RegistryIdle
    /\ HandleIdle

\* get_frame() of a reader thread: the reference in the slot, as it is.
GetFrame(r) ==
    /\ SlotReadable(slot)
    /\ held' = [held EXCEPT ![r] = [called |-> TRUE, ref |-> slot]]
    /\ UNCHANGED <<heap, slot, lpc>>
    /\ UNCHANGED <<dvars, avars, rvars, hvars>>

\* capture_frames(): the flag and the thread
LoopStart ==
    /\ lpc.pc \in {"idle", "exited"}
    /\ lpc' = [lpc EXCEPT !.pc = "test", !.running = TRUE]
    /\ UNCHANGED <<heap, slot, held>>
    /\ UNCHANGED <<dvars, avars, rvars, hvars>>

\* stop(): the flag
LoopStop ==
    /\ lpc.running
    /\ lpc' = [lpc EXCEPT !.running = FALSE]
    /\ UNCHANGED <<heap, slot, held>>
    /\ UNCHANGED <<dvars, avars, rvars, hvars>>

\* while self.running
LoopTest ==
    /\ lpc.pc = "test"
    /\ lpc' = [lpc EXCEPT !.pc = IF lpc.running THEN "pull" ELSE "exited"]
    /\ UNCHANGED <<heap, slot, held>>
    /\ UNCHANGED <<dvars, avars, rvars, hvars>>

\* The pull: a new array, the background colour only for a generated frame,
\* a whole picture from cap.read(); or no array when the read fails (a
\* generated frame is always there).
LoopPull(ret) ==
    /\ lpc.pc = "pull"
    /\ lpc.source = "generated" => ret
    /\ ret => Len(heap) < MaxFrames
    /\ heap' = IF ret
               THEN Append(heap, [complete |-> lpc.source # "generated",
                                  stored |-> FALSE])
               ELSE heap
    /\ lpc' = [lpc EXCEPT !.pc = StepAfter(lpc.source, "pull"),
                          !.local = IF ret THEN Ref(Len(heap) + 1) ELSE None]
    /\ UNCHANGED <<slot, held>>
    /\ UNCHANGED <<dvars, avars, rvars, hvars>>

\* _get_generated_frame(): cv2.putText(frame, line, ...) for every line, on the
\* array the pull made.
LoopDraw ==
    /\ lpc.pc = "draw"
    /\ heap' = [heap EXCEPT ![lpc.local[1]].complete = TRUE]
    /\ lpc' = [lpc EXCEPT !.pc = StepAfter(lpc.source, "draw")]
    /\ UNCHANGED <<slot, held>>
    /\ UNCHANGED <<dvars, avars, rvars, hvars>>

\* self.frame = ...: the slot takes the reference (or None after a failed
\* read, which ends Camera.capture_frames and not MockCamera._capture_loop).
LoopStore ==
    /\ lpc.pc = "store"
    /\ slot' = lpc.local
    /\ heap' = IF lpc.local = None THEN heap
               ELSE [heap EXCEPT ![lpc.local[1]].stored = TRUE]
    /\ lpc' = [lpc EXCEPT !.pc = IF lpc.local = None /\ lpc.source = "stream"
                                 THEN "exited"
                                 ELSE StepAfter(lpc.source, "store")]
    /\ UNCHANGED held
    /\ UNCHANGED <<dvars, avars, rvars, hvars>>

FramesNext ==
    \/ \E r \in Readers : GetFrame(r)
    \/ LoopStart
    \/ LoopStop
    \/ LoopTest
    \/ \E ret \in BOOLEAN : LoopPull(ret)
    \/ LoopDraw
    \/ LoopStore

SpecFrames == FramesInit /\ [][FramesNext]_vars

(***************************************************************************)
(* Properties of the frame slot (SpecFrames).                              *)
(***************************************************************************)
\* Some array has been stored into the slot.
Produced == \E i \in DOMAIN heap : heap[i].stored

\* C24: get_frame() never blocks (a reader can always take its step), and as
\* long as no loop has stored a frame, on a handle that was never started as
\* on one whose loop is on its first pass, the slot is None and None is what
\* every reader was given.
C24_GetFrameBeforeFirstFrame ==
    /\ \A r \in Readers : ENABLED GetFrame(r)
    /\ ~Produced => slot = None /\ \A r \in Readers : held[r].ref = None
    /\ lpc.pc = "idle" => slot = None

\* A reader has called while the first frame was made and not yet stored.
C24_Witness ==
    /\ lpc.pc = "store"
    /\ lpc.local # None
    /\ ~Produced
    /\ held[1].called
    /\ held[1].ref = None

\* C29: what get_frame() gives while the loop runs is None or a completely
\* produced frame: the array in the slot and the arrays the readers hold are
\* complete, and no step changes an array that was stored.
C29_WholeFrames ==
    /\ [](slot # None => heap[slot[1]].complete)
    /\ [](\A r \in Readers : held[r].ref # None => heap[held[r].ref[1]].complete)
    /\ [][\A i \in DOMAIN heap : heap[i].stored => heap'[i] = heap[i]]_vars

\* A reader holds an older frame, the slot has a newer one, and the loop is
\* drawing on a third.
C29_Witness ==
    /\ held[1].ref # None
    /\ slot # None
    /\ slot # held[1].ref
    /\ lpc.pc = "draw"
    /\ lpc.local \notin {slot, held[1].ref}

(***************************************************************************)
(* Properties of one camera handle: connection, the frame slot after       *)
(* stop(), the release of the source (SpecCamera).                         *)
(***************************************************************************)
StopReturned ==
    ~concurrent /\ calls[1].op = "stop" /\ calls[1].pc = "returned"

\* C23: is_connected() of an IPCamera is true exactly when the wrapped camera
\* holds a session token; of a MockCamera with a generated source it is true in
\* every state, after stop() too; of a MockCamera with a video or webcam source
\* it is true exactly when the capture of the source is open.
C23_IsConnected ==
    /\ handle.class = "IPCamera"
          => (is_connected(handle) <=> handle.camera.token # NoValue)
    /\ Generated => is_connected(handle)
    /\ handle.class = "MockCamera" /\ handle.source \in {"video", "webcam"}
          => (is_connected(handle) <=> handle.cap_open)

\* A generated camera was started and stopped, and is connected still.
C23_Witness ==
    /\ Generated
    /\ StopReturned
    /\ calls[1].result \in {"joined", "timed_out"}
    /\ ~handle.running
    /\ is_connected(handle)

\* C25: in the acquisition loop of every camera kind a failed pull ends the
\* loop: no loop that is still alive has a failed pull behind it.
C25_FailedPullEndsLoop ==
    \A i \in DOMAIN threads : ~(threads[i].st = "alive" /\ threads[i].failed)

\* C26: with one thread calling the handle, from the return of stop() to the
\* next call of capture_frames() no capture loop stores into the frame slot
\* and get_frame() goes on returning the same value.
C26_FrozenAfterStop ==
    [][StopReturned /\ StopReturned'
         => /\ \A i \in DOMAIN threads :
                  threads[i].pc = "pull" => threads'[i] = threads[i]
            /\ get_frame(handle)' = get_frame(handle)]_vars

\* C27: stop() always returns, and without an error: a call that has reached
\* its join comes back, with the capture thread gone or, when the thread is
\* still alive at the end of the wait, without it.
C27_StopReturns ==
    /\ \A c \in Callers :
          (calls[c].op = "stop" /\ calls[c].pc = "join")
             ~> (calls[c].op = "stop" /\ calls[c].pc = "returned")
    /\ [](\A c \in Callers :
            calls[c].op = "stop" /\ calls[c].pc = "returned"
               => calls[c].result \in {"not_running", "joined", "timed_out"})

\* stop() has returned after the timeout of its join, the loop still alive.
C27_Witness ==
    /\ StopReturned
    /\ calls[1].result = "timed_out"
    /\ threads # <<>>
    /\ threads[Len(threads)].st = "alive"

\* The capture behind the handle: cv2.VideoCapture of the clip (MockCamera)
\* or of the stream (the wrapped Camera).
SourceOpen(h) == IF h.class = "IPCamera" THEN h.camera.cap_open ELSE h.cap_open

\* C28: with one thread calling the handle, after stop() has returned the
\* source behind the handle is released, whether the handle was never
\* started, was running, or had a loop that had already ended.
C28_ReleasedAfterStop == StopReturned => ~SourceOpen(handle)

(***************************************************************************)
(* Properties of send_ptz_command() on a camera without a session           *)
(* (SpecPtz).                                                              *)
(***************************************************************************)
\* The handle of an IPCamera whose logins all failed: built, without a token.
Unauthenticated ==
    handle.class = "IPCamera" /\ handle.camera.exists /\ handle.camera.token = NoValue

\* C30: on an IPCamera whose authentication used up its retries, which is
\* constructed all the same, every send_ptz_command() makes no call to the
\* device, returns failure and raises nothing.
C30_NoSessionNoCommand ==
    (Unauthenticated /\ ptz_result.command # "none")
    => /\ ptz_result.device_calls = 0
       /\ ptz_result.returned = "False"
       /\ ~ptz_result.raised

(***************************************************************************)
(* Properties of the classify loop, the queue and the walker's time        *)
(* (Spec).                                                                 *)
(***************************************************************************)
\* The positions of the actions of a kind in an action list.
Positions(actions, kind) == {j \in DOMAIN actions : actions[j].action = kind}

\* sel is the actions of the kind, in the order of the list.
InDeclarationOrder(sel, actions, kind) ==
    /\ Len(sel) = Cardinality(Positions(actions, kind))
    /\ \A j \in Positions(actions, kind) :
          sel[Cardinality({k \in Positions(actions, kind) : k <= j})] = actions[j]

\* C31: the classify loop of a dispatch leaves the move queue as it was,
\* followed by the camera_move actions of the event in the order they are
\* declared, and the mode list equal to the video_mode actions of the event in
\* the order they are declared.
C31_ClassifyAppends ==
    [][(wpc = "scan" /\ wpc' = "dispatching")
         => LET actions == ScanOrder(schedule)[cursor].actions
                old == Len(camera_move_queue)
                new == Len(camera_move_queue')
            IN /\ new >= old
               /\ SubSeq(camera_move_queue', 1, old) = camera_move_queue
               /\ InDeclarationOrder(SubSeq(camera_move_queue', old + 1, new),
                                     actions, "camera_move")
               /\ InDeclarationOrder(video_mode_tasks', actions, "video_mode")]_vars

\* The classify loop of the two-mode event has run on a queue that held the
\* move of the event before it.
C31_Witness ==
    /\ wpc = "dispatching"
    /\ dpc = "ConcurrentMedia"
    /\ ScanOrder(schedule)[cursor] = TwoModesEvent
    /\ camera_move_queue = <<CameraMove(0, "ZoomInc", 1), CameraMove(1, "Down", 1)>>
    /\ video_mode_tasks = <<VideoMode("dual_0_1", 1), VideoMode("fullscreen_0", 1)>>

\* The process is over: exit() after the pass, or an exception that left main.
ProcessEnded == wpc \in {"exited", "crashed"}

\* C35: every motion command the drain sent is followed by a Stop to the same
\* camera for the same move, at the latest when the process is over, however
\* it ended.
C35_MoveThenStop ==
    ProcessEnded
    => \A i \in DOMAIN ptz_log :
          ptz_log[i].call = "move"
          => \E j \in DOMAIN ptz_log :
                /\ j > i
                /\ ptz_log[j].call = "stop"
                /\ ptz_log[j].camera = ptz_log[i].camera
                /\ ptz_log[j].task = ptz_log[i].task

\* C36: when the dispatcher is Done no audio or video task is still running,
\* neither the ones its variables refer to nor one whose reference a later
\* play_audio or play_video took.
C36_NoMediaLeftAtDone ==
    dpc = "Done"
    => /\ ~Live(audio_task)
       /\ ~Live(video_task)
       /\ \A i \in DOMAIN orphans : ~Live(orphans[i])

\* The event being dispatched has a video_mode action.
HasModes == Positions(ScanOrder(schedule)[cursor].actions, "video_mode") # {}

\* C37: the queue is drained only while a mode runs.  At Done of an event with
\* a mode the queue is empty and, with a camera in the roster, every move ever
\* enqueued was sent; during the dispatch of an event without a mode no
\* command is sent and the queue does not change, so at Done it ends with the
\* moves of the event.
C37_DrainOnlyWithMode ==
    /\ [](dpc = "Done" /\ HasModes
            => /\ camera_move_queue = <<>>
               /\ cameras # <<>> => Len(MoveCalls) = Len(enq_log))
    /\ [][wpc = "dispatching" /\ ~HasModes
            => ptz_log' = ptz_log /\ camera_move_queue' = camera_move_queue]_vars
    /\ [](dpc = "Done" /\ ~HasModes
            => LET actions == ScanOrder(schedule)[cursor].actions
                   n == Cardinality(Positions(actions, "camera_move"))
                   q == Len(camera_move_queue)
               IN /\ q >= n
                  /\ InDeclarationOrder(SubSeq(camera_move_queue, q - n + 1, q),
                                        actions, "camera_move"))

\* The event with moves only is Done, its move in the queue and nothing sent;
\* the event after it has modes.
C37_Witness ==
    /\ dpc = "Done"
    /\ ScanOrder(schedule)[cursor] = MovesOnlyEvent
    /\ cursor = 1
    /\ ScanOrder(schedule)[2] = TwoModesEvent
    /\ camera_move_queue = <<CameraMove(0, "ZoomInc", 1)>>
    /\ ptz_log = <<>>
    /\ cameras # <<>>

\* The event under the cursor contains the time of the pass.
Matches ==
    /\ ScanOrder(schedule)[cursor].start_time <= time_now
    /\ time_now < ScanOrder(schedule)[cursor].end_time

\* C38: the time of a pass is sampled at the top of the pass and not again, and
\* every event of the pass is dispatched or passed over by that value, whatever
\* the clock has come to during the dispatches before it.
C38_OneTimePerPass ==
    /\ [][time_now' # time_now => wpc = "loop" /\ wpc' = "scan"]_vars
    /\ [][wpc = "scan" /\ wpc' = "dispatching" => Matches]_vars
    /\ [][wpc = "scan" /\ wpc' = "scan" /\ cursor' = cursor + 1 => ~Matches]_vars

\* The second dispatch of a pass without a debug time: the event is dispatched
\* by the time of the pass, with the clock past the end of its window.
C38_Witness ==
    /\ debug_time = <<>>
    /\ wpc = "dispatching"
    /\ Len(dispatch_log) = 2
    /\ clock > time_now
    /\ clock >= ScanOrder(schedule)[cursor].end_time
    /\ Matches

\* The events of the schedule whose start is not earlier than their end.
Unordered ==
    {k \in DOMAIN ScanOrder(schedule) :
        ScanOrder(schedule)[k].start_time >= ScanOrder(schedule)[k].end_time}

\* C39: an event whose start is not earlier than its end, the window empty or
\* written to run over midnight, is never dispatched: the walker is never in
\* its dispatch and its name is never in the log of a pass.
C39_UnorderedNeverDispatched ==
    /\ wpc \in {"dispatching", "crashed"} => cursor \notin Unordered
    /\ \A k \in Unordered : TimesDispatched(ScanOrder(schedule)[k].name) = 0

\* The walker has passed over such an event at a time not before its start,
\* with the start of an empty window among the times.
C39_Witness ==
    /\ Unordered # {}
    /\ \A k \in Unordered :
          /\ k < cursor
          /\ ScanOrder(schedule)[k].start_time <= time_now
    /\ \E k \in Unordered :
          ScanOrder(schedule)[k].start_time = ScanOrder(schedule)[k].end_time
    /\ dispatch_log = <<>>

(***************************************************************************)
(* Properties of the roster as the display modes read it, and of the       *)
(* registry's table (SpecRegistry).                                        *)
(***************************************************************************)
\* C33: in the roster create_cameras_from_config() returns, looking a camera up
\* by the identifier of any camera of the roster gives a handle, and the handle
\* has that identifier as its camera_id.
C33_LookupById ==
    rpc = "returned"
    => \A i \in DOMAIN built :
          LET got == RosterLookup(built, built[i].camera_id)
          IN got.found /\ got.handle.camera_id = built[i].camera_id

\* C34: register sets the class of its kind and leaves the other kinds alone
\* (a kind registered before gets the new class), unregister answers True
\* exactly when the kind was in the table and takes out that kind only,
\* clear_registry empties the table, and no other call changes it; in every
\* state list_available_cameras gives the kinds of the table and
\* get_camera_class the class of each, ValueError for the others.
C34_RegistryTable ==
    /\ [][LET call == last_call'
              others == (DOMAIN registry \cup DOMAIN registry') \ {call.camera_type}
              Kept(kinds) ==
                  \A k \in kinds :
                      /\ (k \in DOMAIN registry) <=> (k \in DOMAIN registry')
                      /\ (k \in DOMAIN registry) => (registry'[k] = registry[k])
          IN CASE call.op = "register" /\ ~call.raised ->
                    /\ call.camera_type \in DOMAIN registry'
                    /\ registry'[call.camera_type] = call.class
                    /\ Kept(others)
               [] call.op = "unregister" ->
                    /\ (call.returned = "True") <=> (call.camera_type \in DOMAIN registry)
                    /\ call.returned \in {"True", "False"}
                    /\ call.camera_type \notin DOMAIN registry'
                    /\ Kept(others)
               [] call.op = "clear_registry" -> DOMAIN registry' = {}
               [] OTHER -> registry' = registry]_<<registry, last_call>>
    /\ [](/\ list_available_cameras(registry) = DOMAIN registry
          /\ \A k \in CameraKinds :
                LET got == get_camera_class(registry, k)
                IN IF k \in DOMAIN registry
                   THEN ~got.raised /\ got.class = registry[k]
                   ELSE got.raised /\ got.error.type = "ValueError")

\* The kind mock was registered again, with another class, and ip_camera was
\* taken out.
C34_Witness ==
    /\ rpc = "ready"
    /\ list_available_cameras(registry) = {"mock"}
    /\ get_camera_class(registry, "mock").class = "IPCamera"
    /\ last_call.op = "unregister"
    /\ last_call.returned = "True"

(***************************************************************************)
(* Properties of a restart: capture_frames(), stop(), capture_frames()     *)
(* (SpecCamera).                                                           *)
(***************************************************************************)
\* One thread calls the handle; capture_frames() has returned, and it has
\* started a thread twice: there was a stop() between the two.
Restarted ==
    /\ ~concurrent
    /\ Len(threads) >= 2
    /\ calls[1].op = "capture_frames"
    /\ calls[1].pc = "returned"

\* C32: after capture_frames(), stop(), capture_frames() a MockCamera has its
\* running flag set and a live capture loop that has what it needs to produce
\* frames.
C32_MockRestart ==
    (handle.class = "MockCamera" /\ Restarted)
    => /\ handle.running
       /\ threads[Len(threads)].st = "alive"
       /\ CanPull(handle)

\* C40: after capture_frames(), stop(), capture_frames() on an IPCamera, while
\* the running flag of the handle is set a capture loop of the wrapped camera
\* is alive.
C40_IPCameraRestart ==
    (handle.class = "IPCamera" /\ Restarted /\ handle.running)
    => \E i \in DOMAIN threads :
          threads[i].st = "alive" /\ threads[i].target = "Camera.capture_frames"

====
